---- MODULE Spec2Model ----
(***************************************************************************)
(* A model of the resolution-and-extraction pipeline of the               *)
(* hdfilmcehennemi-stremio addon: the scraper's getVideoAndSubtitles with  *)
(* its alternate-source fallback, the resilient fetcher httpGet with its   *)
(* direct and proxy phases, the proxy pool of proxy.js, and the matcher of *)
(* search.js: findContent, findBestMatch and calculateSimilarity.          *)
(*                                                                         *)
(* Node runs every callback to completion: one action of this model is    *)
(* the code that runs between two awaits that wait for the network or a    *)
(* timer.                                                                  *)
(***************************************************************************)
EXTENDS Integers, Sequences, FiniteSets, TLC

VARIABLES
    gv,          \* one call of getVideoAndSubtitles (scraper.js)
    policy,      \* CONFIG.proxyEnabled (proxy.js:44)
    cache,       \* proxyListCache (proxy.js:52): proxies, timestamp, workingProxies
    now,         \* Date.now(), in units of CONFIG.cacheTTL
    gw,          \* per caller: its call of getWorkingProxy
    ft,          \* per caller: its call of httpGet
    slots,       \* the limiter: activeRequests and requestQueue (scraper.js:36-37)
    hist,        \* history of the proxy pool and of the queue (not program state)
    fc,          \* one call of findContent, the cache of search.js, and whether
                 \* a search of the call yielded a match (not program state)
    mt,          \* the matcher: arguments and result of a call (search.js)
    ts,          \* toStremioStreams: arguments and result of a call (scraper.js)
    dc           \* decodeVideoUrl: argument and result of a call (scraper.js)

vars == <<gv, policy, cache, now, gw, ft, slots, hist, fc, mt, ts, dc>>

NULL == "<null>"

\* JavaScript truthiness of a string-or-null value
Truthy(v) == v # NULL /\ v # ""

Range(s) == {s[i] : i \in DOMAIN s}

SeqsUpTo(S, n) == UNION {[1..k -> S] : k \in 0..n}

(***************************************************************************)
(* scraper.js: getVideoAndSubtitles                                        *)
(***************************************************************************)

MaxAlts == 3

BASE_URL == "https://www.hdfilmcehennemi.ws"
EMBED_BASE == "https://hdfilmcehennemi.mobi"

AltNames == {"Close", "Rapidrame"}

\* an entry of altSources: $('.alternative-link') name, data-video, data-active
AltSource == [name : AltNames, videoId : {"r1"}, active : BOOLEAN]

\* The iframe's src attribute: whether new URL(src) parses, its origin, and the
\* id that /embed\/([^\/\?]+)/ captures (NULL when the pattern does not match).
IframeSrcs ==
    [parses : {TRUE}, origin : {EMBED_BASE, BASE_URL}, embedId : {NULL, "abc"},
     rapidrame_id : {NULL}]
    \cup [parses : {FALSE}, origin : {NULL}, embedId : {NULL, "abc"},
          rapidrame_id : {NULL}]

\* What httpGet(pageUrl) and cheerio find on the content page.
Pages ==
    [fetched : BOOLEAN, hasIframe : BOOLEAN, iframeSrc : IframeSrcs,
     altSources : SeqsUpTo(AltSource, MaxAlts)]

\* What one frame holds: the URL decodeVideoUrl gives for the packed script
\* (NULL: no packed script or no parts), the JSON-LD contentUrl, the number of
\* <track> elements with a src, and the fetch of the m3u8; thrown: httpGet of
\* the frame, or the parsing of it, threw.
Frames ==
    [thrown : BOOLEAN, packed : {NULL, "", "https://cdn/a.m3u8"},
     jsonLd : {NULL, "https://cdn/b.m3u8"}, subs : 0..1,
     m3u8 : {"throws", "no-audio", "audio"}]

\* What the frame at src can hold: fetch rejects a URL that new URL(src)
\* rejects, so httpGet of it throws.
FramesAt(src) == {fr \in Frames : src.parses \/ fr.thrown}

NoResult ==
    [present |-> FALSE, videoUrl |-> NULL, subtitles |-> 0, audioTracks |-> 0,
     source |-> NULL, hasAlternativeSources |-> FALSE, embedOrigin |-> NULL]

scrapeIframe(fr) ==
    LET videoUrl == IF Truthy(fr.packed) THEN fr.packed
                    ELSE IF Truthy(fr.jsonLd) THEN fr.jsonLd
                    ELSE fr.packed
    IN  [present |-> TRUE,
         videoUrl |-> videoUrl,
         subtitles |-> fr.subs,
         audioTracks |-> IF Truthy(videoUrl) /\ fr.m3u8 = "audio" THEN 1 ELSE 0,
         source |-> NULL, hasAlternativeSources |-> FALSE, embedOrigin |-> NULL]

\* try { result = await scrapeIframe(src) } catch { }: a throw leaves `onThrow`
tryScrape(fr, onThrow) == IF fr.thrown THEN onThrow ELSE scrapeIframe(fr)

getEmbedOriginDefault(src) == EMBED_BASE

getEmbedOrigin(src) == IF src.parses THEN src.origin ELSE BASE_URL

altIframeSrc(videoId, alt) ==
    [parses |-> TRUE, origin |-> EMBED_BASE, embedId |-> videoId,
     rapidrame_id |-> IF alt.name = "Rapidrame" THEN alt.videoId ELSE NULL]

\* `if (!result || !result.videoUrl)` before the alternatives (scraper.js:527)
needsFallback(result) == ~result.present \/ ~Truthy(result.videoUrl)

extractionFailedNullOnly(result) == ~result.present

\* `if (!result || !result.videoUrl) throw new ScrapingError` (scraper.js:567)
extractionFailed(result) == ~result.present \/ ~Truthy(result.videoUrl)

nextAlternativeIncludingActive(alts, i) ==
    IF i < Len(alts) THEN i + 1 ELSE 0

\* `for (const alt of altSources) { if (alt.active) continue; ...`: the next
\* alternative after position i that is scraped, 0 when the loop ends
nextAlternative(alts, i) ==
    LET later == {j \in (i + 1)..Len(alts) : ~alts[j].active}
    IN  IF later = {} THEN 0 ELSE CHOOSE j \in later : \A k \in later : j <= k

activeSourceNameFirstListed(alts) ==
    IF alts = <<>> THEN NULL ELSE alts[1].name

\* altSources.find(s => s.active)
activeSourceName(alts) ==
    LET act == {j \in 1..Len(alts) : alts[j].active}
    IN  IF act = {} THEN NULL
        ELSE alts[CHOOSE j \in act : \A k \in act : j <= k].name

GvInit ==
    [pc |-> "start", iframeSrc |-> CHOOSE s \in IframeSrcs : TRUE,
     altSources |-> <<>>, result |-> NoResult, alt |-> 0,
     usedIframeSrc |-> CHOOSE s \in IframeSrcs : TRUE,
     outcome |-> "none", primary |-> "none", scraped |-> <<>>]

\* scraper.js:567-576: the end of getVideoAndSubtitles
gvFinish(g, result, used) ==
    IF extractionFailed(result)
    THEN [g EXCEPT !.pc = "done", !.outcome = "ScrapingError", !.result = result,
                   !.usedIframeSrc = used]
    ELSE [g EXCEPT !.pc = "done", !.outcome = "returned", !.usedIframeSrc = used,
                   !.result = [result EXCEPT !.hasAlternativeSources = TRUE,
                                             !.embedOrigin = getEmbedOrigin(used)]]

\* scraper.js:479-503: fetch the page, find the iframe and the alternatives
GvFetchPage ==
    /\ gv.pc = "start"
    /\ \E page \in Pages :
         gv' = IF ~page.fetched
               THEN [gv EXCEPT !.pc = "done", !.outcome = "NetworkError"]
               ELSE IF ~page.hasIframe
               THEN [gv EXCEPT !.pc = "done", !.outcome = "ScrapingError"]
               ELSE [gv EXCEPT !.pc = "primary", !.iframeSrc = page.iframeSrc,
                               !.usedIframeSrc = page.iframeSrc,
                               !.altSources = page.altSources]
    /\ UNCHANGED <<ts, dc, fc, mt, policy, cache, now, gw, ft, slots, hist>>

\* scraper.js:519-566: the primary frame, then the choice of what follows
GvScrapePrimary ==
    /\ gv.pc = "primary"
    /\ \E fr \in FramesAt(gv.iframeSrc) :
         LET result == tryScrape(fr, NoResult)
             g == [gv EXCEPT !.primary =
                      IF fr.thrown THEN "threw"
                      ELSE IF Truthy(result.videoUrl) THEN "video" ELSE "no-video"]
             first == nextAlternative(gv.altSources, 0)
         IN  gv' = IF needsFallback(result)
                   THEN IF gv.iframeSrc.embedId # NULL /\ first # 0
                        THEN [g EXCEPT !.pc = "alts", !.alt = first, !.result = result]
                        ELSE gvFinish(g, result, gv.usedIframeSrc)
                   ELSE gvFinish(g,
                            [result EXCEPT !.source =
                                 activeSourceName(gv.altSources)],
                            gv.usedIframeSrc)
    /\ UNCHANGED <<ts, dc, fc, mt, policy, cache, now, gw, ft, slots, hist>>

\* scraper.js:534-558: one alternative of the loop
GvScrapeAlt ==
    /\ gv.pc = "alts"
    /\ \E fr \in Frames :
         LET alt == gv.altSources[gv.alt]
             src == altIframeSrc(gv.iframeSrc.embedId, alt)
             altResult == tryScrape(fr, NoResult)
             yielded == altResult.present /\ Truthy(altResult.videoUrl)
             g == [gv EXCEPT !.scraped =
                      Append(@, [alt |-> gv.alt, yielded |-> yielded])]
             next == nextAlternative(gv.altSources, gv.alt)
         IN  gv' = IF yielded
                   THEN gvFinish(g, [altResult EXCEPT !.source = alt.name], src)
                   ELSE IF next # 0
                   THEN [g EXCEPT !.alt = next]
                   ELSE gvFinish(g, gv.result, gv.usedIframeSrc)
    /\ UNCHANGED <<ts, dc, fc, mt, policy, cache, now, gw, ft, slots, hist>>

GvNext == GvFetchPage \/ GvScrapePrimary \/ GvScrapeAlt

(***************************************************************************)
(* proxy.js: the proxy pool                                                *)
(***************************************************************************)

NAddr == 2
MaxNow == 2

Addr == 1..NAddr
Types == {"http", "socks4", "socks5"}
Proxy == [address : Addr, type : Types]
NoProxy == [address |-> 0, type |-> "none"]

\* CONFIG.cacheTTL (10 minutes) is the unit of `now`
cacheTTL == 1
maxProxiesToTest == 100
\* getWorkingProxy's maxRetries
maxRounds == 5
\* testProxy's text.length > 1000
minTestLength == 1000

Markers == {"cf-browser-verification", "Just a moment", "challenge-platform"}

\* What a request through a proxy (or a direct one) can meet: an exception
\* (abort on timeout, transport error) or a response with a status and a body;
\* of the body, the marker it contains and its length.
Throws == {[kind |-> k, status |-> 0, marker |-> "none", len |-> 0] :
              k \in {"abort", "error"}}
Responses ==
    [kind : {"resp"}, status : {200, 403, 503}, marker : Markers \cup {"none"},
     len : {minTestLength, minTestLength + 1}]
    \cup [kind : {"resp"}, status : {200, 403, 503}, marker : {"none"}, len : {0}]
Outcomes == Throws \cup Responses
NoOutcome == [kind |-> "none", status |-> 0, marker |-> "none", len |-> 0]

\* What the feeds answer to one fetchProxyList: the addresses of the HTTP
\* sources (flattened), of the SOCKS4 source and of the SOCKS5 source.
FeedChoices ==
    { [http |-> <<>>, socks4 |-> <<>>, socks5 |-> <<>>],
      [http |-> <<1, 1>>, socks4 |-> <<>>, socks5 |-> <<>>],
      [http |-> <<>>, socks4 |-> <<NAddr>>, socks5 |-> <<NAddr>>] }

Tag(addresses, type) ==
    [i \in 1..Len(addresses) |-> [address |-> addresses[i], type |-> type]]

allProxiesSocksFirst(feeds) ==
    Tag(feeds.socks5, "socks5") \o Tag(feeds.socks4, "socks4") \o Tag(feeds.http, "http")

\* results.flat() (proxy.js:114-121)
allProxies(feeds) ==
    Tag(feeds.http, "http") \o Tag(feeds.socks4, "socks4") \o Tag(feeds.socks5, "socks5")

RECURSIVE KeepFirst(_, _)
KeepFirst(all, seen) ==
    IF all = <<>> THEN <<>>
    ELSE IF Head(all).address \in seen THEN KeepFirst(Tail(all), seen)
    ELSE <<Head(all)>> \o KeepFirst(Tail(all), seen \cup {Head(all).address})

\* proxy.js:124-129: deduplicate by address, keeping the first occurrence
uniqueProxies(feeds) == KeepFirst(allProxies(feeds), {})

\* proxy.js:105-106: the cached list is still good
listFresh(c, t) == Len(c.proxies) > 0 /\ t - c.timestamp < cacheTTL

updatedCacheClearing(c, unique, t) ==
    IF Len(unique) > 0
    THEN [proxies |-> unique, timestamp |-> t, workingProxies |-> <<>>]
    ELSE c

\* proxy.js:136-140: `if (uniqueProxies.length > 0)` update the cache
updatedCache(c, unique, t) ==
    IF Len(unique) > 0
    THEN [c EXCEPT !.proxies = unique, !.timestamp = t]
    ELSE c

\* proxy.js:142: what fetchProxyList returns after a fetch
fetchedList(c, unique) == IF Len(unique) > 0 THEN unique ELSE c.proxies

testProxyAnyLength(o) ==
    /\ o.kind = "resp"
    /\ o.status = 200
    /\ o.marker \notin {"cf-browser-verification", "Just a moment"}

\* proxy.js:169-199
testProxy(o) ==
    /\ o.kind = "resp"
    /\ o.status = 200
    /\ o.marker \notin {"cf-browser-verification", "Just a moment"}
    /\ o.len > minTestLength

Perms(s) ==
    {t \in [1..Len(s) -> Range(s)] : \A i \in 1..Len(s) : \E j \in 1..Len(s) : t[j] = s[i]}

Take(s, n) == IF Len(s) <= n THEN s ELSE SubSeq(s, 1, n)

IdleGw ==
    [pc |-> "idle", attempt |-> 0, toTest |-> <<>>, results |-> <<>>,
     ret |-> NoProxy, fromCache |-> FALSE, stale |-> FALSE]

Untested == [done |-> FALSE, works |-> FALSE, resp |-> NoOutcome]

Addresses(list) == {list[i].address : i \in 1..Len(list)}

cacheHitMoreThanOne(c) == Len(c.workingProxies) > 1

\* proxy.js:215: a cached working proxy is available
cacheHit(c) == Len(c.workingProxies) > 0

\* proxy.js:231-256 after fetchProxyList returned `proxies` in round `attempt`:
\* no proxies: sleep or give up; else shuffle and send the tests
gwAfterList(g, attempt, proxies, shuffled) ==
    IF Len(proxies) = 0
    THEN IF attempt < maxRounds
         THEN [g EXCEPT !.pc = "sleeping", !.attempt = attempt]
         ELSE [g EXCEPT !.pc = "returned", !.attempt = attempt, !.ret = NoProxy]
    ELSE [g EXCEPT !.pc = "testing", !.attempt = attempt,
                   !.toTest = Take(shuffled, maxProxiesToTest),
                   !.results = [i \in 1..Len(Take(shuffled, maxProxiesToTest)) |->
                                   Untested]]

\* proxy.js:224-229: the start of round `attempt`, up to the await of the feeds
\* or, with a fresh list, of the tests
GwStartRound(c, attempt, cacheNow) ==
    LET c1 == IF attempt > 1 THEN [cacheNow EXCEPT !.timestamp = 0] ELSE cacheNow
    IN  /\ cache' = c1
        /\ IF listFresh(c1, now)
           THEN \E shuffled \in Perms(c1.proxies) :
                  gw' = [gw EXCEPT ![c] = gwAfterList(IdleGw, attempt, c1.proxies, shuffled)]
           ELSE gw' = [gw EXCEPT ![c] = [IdleGw EXCEPT !.pc = "fetching",
                                                        !.attempt = attempt]]

\* proxy.js:208-229: the call of getWorkingProxy by caller c, with the cache
\* as the caller's own step leaves it
GwCall(c, cacheNow) ==
    IF policy = "never"
    THEN /\ gw' = [gw EXCEPT ![c] = [IdleGw EXCEPT !.pc = "returned"]]
         /\ cache' = cacheNow
    ELSE IF cacheHit(cacheNow)
    THEN /\ gw' = [gw EXCEPT ![c] =
                     [IdleGw EXCEPT !.pc = "returned",
                                    !.ret = cacheNow.workingProxies[1],
                                    !.fromCache = TRUE,
                                    !.stale = cacheNow.workingProxies[1].address
                                                 \in hist.bad]]
         /\ cache' = cacheNow
    ELSE GwStartRound(c, 1, cacheNow)

\* proxy.js:120-142: the feeds have answered
GwFetchDone(c) ==
    /\ gw[c].pc = "fetching"
    /\ \E feeds \in FeedChoices :
         LET unique == uniqueProxies(feeds)
             c1 == updatedCache(cache, unique, now)
             proxies == fetchedList(cache, unique)
         IN  /\ cache' = c1
             /\ \E shuffled \in Perms(proxies) :
                  gw' = [gw EXCEPT ![c] = gwAfterList(gw[c], gw[c].attempt, proxies, shuffled)]
    /\ hist' = IF hist.on /\ Len(cache.workingProxies) > 0
               THEN [hist EXCEPT !.refreshed = TRUE]
               ELSE hist
    /\ UNCHANGED <<ts, dc, fc, mt, gv, policy, now, ft, slots>>

\* proxy.js:252-255: the test of the i-th proxy of the batch ends
GwTestDone(c) ==
    /\ gw[c].pc = "testing"
    /\ \E i \in 1..Len(gw[c].toTest), o \in Outcomes :
         /\ ~gw[c].results[i].done
         /\ gw' = [gw EXCEPT ![c].results[i] =
                      [done |-> TRUE, works |-> testProxy(o),
                       resp |-> IF testProxy(o) THEN o ELSE NoOutcome]]
         /\ hist' = IF hist.on /\ testProxy(o)
                    THEN [hist EXCEPT !.bad = @ \ {gw[c].toTest[i].address}]
                    ELSE hist
    /\ UNCHANGED <<ts, dc, fc, mt, gv, policy, cache, now, ft, slots>>

\* the history of the promotions, where it is kept: when the address was last
\* pushed to the known-good set
promoted(h, proxy, t) ==
    IF "since" \in DOMAIN h
    THEN [h EXCEPT !.since[proxy.address] = t]
    ELSE h

GwBatchDoneGivingUp(c) ==
    /\ gw[c].pc = "testing"
    /\ \A i \in 1..Len(gw[c].toTest) : gw[c].results[i].done
    /\ cache' = cache
    /\ gw' = [gw EXCEPT ![c].pc = "returned"]
    /\ UNCHANGED <<ts, dc, fc, mt, gv, policy, now, ft, slots, hist>>

\* proxy.js:258-272: Promise.all has resolved: promote the first that works,
\* or sleep before the next round, or give up
GwBatchDone(c) ==
    /\ gw[c].pc = "testing"
    /\ \A i \in 1..Len(gw[c].toTest) : gw[c].results[i].done
    /\ LET working == {i \in 1..Len(gw[c].toTest) : gw[c].results[i].works}
           first == CHOOSE i \in working : \A j \in working : i <= j
       IN  IF working # {}
           THEN /\ cache' = [cache EXCEPT !.workingProxies =
                                Append(@, gw[c].toTest[first])]
                /\ gw' = [gw EXCEPT ![c].pc = "returned",
                                    ![c].ret = gw[c].toTest[first]]
                /\ hist' = promoted(hist, gw[c].toTest[first], now)
           ELSE /\ cache' = cache
                /\ gw' = [gw EXCEPT ![c].pc =
                             IF gw[c].attempt < maxRounds THEN "sleeping"
                             ELSE "returned"]
                /\ hist' = hist
    /\ UNCHANGED <<ts, dc, fc, mt, gv, policy, now, ft, slots>>

\* proxy.js:235 and 270: the pause has ended, the next round starts
GwSleepDone(c) ==
    /\ gw[c].pc = "sleeping"
    /\ GwStartRound(c, gw[c].attempt + 1, cache)
    /\ UNCHANGED <<ts, dc, fc, mt, gv, policy, now, ft, slots, hist>>

markProxyBadKeeping(c, proxy) == c

\* proxy.js:282-287
markProxyBad(c, proxy) ==
    [c EXCEPT !.workingProxies =
        SelectSeq(@, LAMBDA p : p.address # proxy.address)]

\* the history of markProxyBad: the address was in the known-good set
markedBad(h, c, proxy) ==
    IF h.on /\ proxy.address \in Addresses(c.workingProxies)
    THEN [h EXCEPT !.bad = @ \cup {proxy.address}]
    ELSE h

\* time passes
Tick ==
    /\ now < MaxNow
    /\ now' = now + 1
    /\ UNCHANGED <<ts, dc, fc, mt, gv, policy, cache, gw, ft, slots, hist>>

EmptyCache == [proxies |-> <<>>, timestamp |-> 0, workingProxies |-> <<>>]

(***************************************************************************)
(* The pool under callers that call getWorkingProxy and markProxyBad in    *)
(* any order, several at a time.                                           *)
(***************************************************************************)

NPoolCallers == 2

PoolCall(c) ==
    /\ gw[c].pc = "idle"
    /\ GwCall(c, cache)
    /\ UNCHANGED <<ts, dc, fc, mt, gv, policy, now, ft, slots, hist>>

\* the caller has its answer
PoolTake(c) ==
    /\ gw[c].pc = "returned"
    /\ gw' = [gw EXCEPT ![c] = IdleGw]
    /\ UNCHANGED <<ts, dc, fc, mt, gv, policy, cache, now, ft, slots, hist>>

PoolMarkBad(c) ==
    /\ gw[c].pc = "idle"
    /\ \E proxy \in Proxy :
         /\ cache' = markProxyBad(cache, proxy)
         /\ hist' = markedBad(hist, cache, proxy)
    /\ UNCHANGED <<ts, dc, fc, mt, gv, policy, now, gw, ft, slots>>

PoolInit ==
    /\ gv = GvInit
    /\ policy \in {"auto", "never"}
    /\ cache = EmptyCache
    /\ now = 1
    /\ gw = [c \in 1..NPoolCallers |-> IdleGw]
    /\ ft = <<>>
    /\ slots = [activeRequests |-> 0, requestQueue |-> <<>>]
    /\ hist = [on |-> TRUE, bad |-> {}, refreshed |-> FALSE]
    /\ ts = <<>>
    /\ dc = <<>>
    /\ fc = <<>>
    /\ mt = <<>>

PoolNext ==
    \/ \E c \in DOMAIN gw :
         \/ PoolCall(c)
         \/ PoolTake(c)
         \/ PoolMarkBad(c)
         \/ GwFetchDone(c)
         \/ GwTestDone(c)
         \/ GwBatchDone(c)
         \/ GwSleepDone(c)
    \/ Tick

SpecPool == PoolInit /\ [][PoolNext]_vars

\* the pool with every pending await of getWorkingProxy eventually settling:
\* the feeds and the tests carry AbortSignal.timeout (proxy.js:67, 175) and
\* the pause is a timer (proxy.js:235, 270)
SpecPoolFair ==
    /\ SpecPool
    /\ \A c \in 1..NPoolCallers :
         /\ WF_vars(GwFetchDone(c))
         /\ WF_vars(GwTestDone(c))
         /\ WF_vars(GwBatchDone(c))
         /\ WF_vars(GwSleepDone(c))

\* the pool with the time of every promotion kept as history
KnownGoodInit ==
    /\ gv = GvInit
    /\ policy = "auto"
    /\ cache = EmptyCache
    /\ now = 1
    /\ gw = [c \in 1..NPoolCallers |-> IdleGw]
    /\ ft = <<>>
    /\ slots = [activeRequests |-> 0, requestQueue |-> <<>>]
    /\ hist = [on |-> FALSE, bad |-> {}, refreshed |-> FALSE,
               since |-> [a \in Addr |-> 0]]
    /\ ts = <<>>
    /\ dc = <<>>
    /\ fc = <<>>
    /\ mt = <<>>

SpecKnownGood == KnownGoodInit /\ [][PoolNext]_vars

(***************************************************************************)
(* proxy.js: fetchProxyList alone, under every answer of the feeds up to   *)
(* MaxFeed addresses per protocol.                                         *)
(***************************************************************************)

MaxFeed == 2

Feeds == [http : SeqsUpTo(Addr, MaxFeed), socks4 : SeqsUpTo(Addr, MaxFeed),
          socks5 : SeqsUpTo(Addr, MaxFeed)]

NoFeeds == [http |-> <<>>, socks4 |-> <<>>, socks5 |-> <<>>]

IdleFpl == [pc |-> "idle", feeds |-> NoFeeds, refreshed |-> FALSE, ret |-> <<>>]

\* proxy.js:103-120: the call, up to the return of the cached list or the
\* await of the feeds
FetchProxyList ==
    /\ gw.pc = "idle"
    /\ gw' = IF listFresh(cache, now)
             THEN [IdleFpl EXCEPT !.pc = "returned", !.ret = cache.proxies]
             ELSE [IdleFpl EXCEPT !.pc = "fetching"]
    /\ UNCHANGED <<ts, dc, fc, mt, gv, policy, cache, now, ft, slots, hist>>

\* proxy.js:120-142: the feeds have answered
FplFetched ==
    /\ gw.pc = "fetching"
    /\ \E feeds \in Feeds :
         LET unique == uniqueProxies(feeds)
         IN  /\ cache' = updatedCache(cache, unique, now)
             /\ gw' = [gw EXCEPT !.pc = "returned", !.feeds = feeds,
                                 !.refreshed = Len(unique) > 0,
                                 !.ret = fetchedList(cache, unique)]
    /\ UNCHANGED <<ts, dc, fc, mt, gv, policy, now, ft, slots, hist>>

\* the caller has the list
FplTaken ==
    /\ gw.pc = "returned"
    /\ gw' = IdleFpl
    /\ UNCHANGED <<ts, dc, fc, mt, gv, policy, cache, now, ft, slots, hist>>

RefreshInit ==
    /\ gv = GvInit
    /\ policy = "auto"
    /\ cache = EmptyCache
    /\ now = 1
    /\ gw = IdleFpl
    /\ ft = <<>>
    /\ slots = [activeRequests |-> 0, requestQueue |-> <<>>]
    /\ hist = [on |-> FALSE, bad |-> {}, refreshed |-> FALSE]
    /\ ts = <<>>
    /\ dc = <<>>
    /\ fc = <<>>
    /\ mt = <<>>

RefreshNext == FetchProxyList \/ FplFetched \/ FplTaken \/ Tick

SpecRefresh == RefreshInit /\ [][RefreshNext]_vars

(***************************************************************************)
(* scraper.js: the limiter, tryFetchWithProxy and httpGet                  *)
(***************************************************************************)

maxRetries == 3
maxConcurrent == 5
maxProxyAttempts == 5

WsUrl == "https://www.hdfilmcehennemi.ws/film/"
MobiUrl == "https://hdfilmcehennemi.mobi/video/embed/abc/"
CdnUrl == "https://cdn.example.net/hls/master.m3u8"
Urls == {WsUrl, MobiUrl, CdnUrl}

\* url.includes(part), for the parts the code asks about
Includes(url, part) ==
    <<url, part>> \in {<<WsUrl, "hdfilmcehennemi.ws">>, <<MobiUrl, "hdfilmcehennemi.mobi">>}

\* scraper.js:80-82
isHdfilmcehennemiUrl(url) ==
    Includes(url, "hdfilmcehennemi.ws") \/ Includes(url, "hdfilmcehennemi.mobi")

isProxyEnabledWhatever == TRUE

\* proxy.js:302-312
isProxyEnabled == policy # "never"
isProxyAlways == policy = "always"

\* response.ok
Ok(o) == o.status >= 200 /\ o.status <= 299

directVerdictAnyFailureBlocks(url, o) ==
    IF o.kind # "resp" THEN "failure"
    ELSE IF ~Ok(o) /\ isHdfilmcehennemiUrl(url) THEN "blocked"
    ELSE IF ~Ok(o) THEN "failure"
    ELSE IF isHdfilmcehennemiUrl(url) /\ o.marker \in Markers THEN "blocked"
    ELSE "success"

\* scraper.js:185-224: what a direct attempt makes of what it met
directVerdict(url, o) ==
    IF o.kind # "resp" THEN "failure"
    ELSE IF o.status = 403 /\ isHdfilmcehennemiUrl(url) THEN "blocked"
    ELSE IF ~Ok(o) THEN "failure"
    ELSE IF isHdfilmcehennemiUrl(url) /\ o.marker \in Markers THEN "blocked"
    ELSE "success"

\* scraper.js:103-137: what an attempt through a proxy makes of what it met:
\* "null" (return null), "text" (return text) or "failure" (throw)
proxyVerdict(o) ==
    IF o.kind # "resp" THEN "failure"
    ELSE IF o.status = 403 THEN "null"
    ELSE IF ~Ok(o) THEN "failure"
    ELSE IF o.marker \in {"cf-browser-verification", "Just a moment"} THEN "null"
    ELSE "text"

NoError == [name |-> "none", status |-> 0]
AllProxiesFailed == [name |-> "NetworkError", status |-> 0]
AllAttemptsFailed == [name |-> "NetworkError", status |-> 0]

errorOfUnwrapped(o) ==
    IF o.kind = "abort" THEN [name |-> "AbortError", status |-> 0]
    ELSE IF o.kind = "error" THEN [name |-> "TypeError", status |-> 0]
    ELSE [name |-> "NetworkError", status |-> o.status]

\* scraper.js:227-233: lastError after a failed direct attempt
errorOf(o) ==
    IF o.kind = "abort" THEN [name |-> "TimeoutError", status |-> 0]
    ELSE IF o.kind = "error" THEN [name |-> "NetworkError", status |-> 0]
    ELSE [name |-> "NetworkError", status |-> o.status]

\* CONFIG.retryDelay, in ms
retryDelay == 1000

backoffDelayFromTwo(attempt) == retryDelay * (2 ^ attempt)

\* scraper.js:147 and 236: the delay slept after failed attempt `attempt`
backoffDelay(attempt) == retryDelay * (2 ^ (attempt - 1))

acquireSlotOneMore(s, c) ==
    IF s.activeRequests <= maxConcurrent
    THEN [s EXCEPT !.activeRequests = @ + 1]
    ELSE [s EXCEPT !.requestQueue = Append(@, c)]

acquireSlotInFront(s, c) ==
    IF s.activeRequests < maxConcurrent
    THEN [s EXCEPT !.activeRequests = @ + 1]
    ELSE [s EXCEPT !.requestQueue = <<c>> \o @]

\* scraper.js:43-52: the slot is taken, or the caller queued
acquireSlot(s, c) ==
    IF s.activeRequests < maxConcurrent
    THEN [s EXCEPT !.activeRequests = @ + 1]
    ELSE [s EXCEPT !.requestQueue = Append(@, c)]

\* where acquireSlot leaves its caller: with its request sent, or queued
afterAcquire(s) == IF s.activeRequests < maxConcurrent THEN "wait" ELSE "queued"

releaseSlotNoDecrement(s) ==
    IF Len(s.requestQueue) > 0
    THEN [s EXCEPT !.requestQueue = Tail(@), !.activeRequests = @ + 1]
    ELSE s

\* scraper.js:57-64
releaseSlot(s) ==
    IF Len(s.requestQueue) > 0
    THEN [s EXCEPT !.requestQueue = Tail(@)]
    ELSE [s EXCEPT !.activeRequests = @ - 1]

resumedNobody(f, s) == f

\* next(): the first of the queue goes on and sends its request
resumed(f, s) ==
    IF Len(s.requestQueue) > 0
    THEN [f EXCEPT ![Head(s.requestQueue)].pc = "wait"]
    ELSE f

IdleFt ==
    [pc |-> "idle", phase |-> "direct", url |-> CdnUrl, attempt |-> 0,
     useProxy |-> FALSE, lastError |-> NoError, proxyAttempt |-> 0, tried |-> {},
     proxy |-> NoProxy, result |-> "none", thrown |-> NoError,
     sig |-> "none", blocked |-> FALSE, used |-> <<>>, timedOut |-> FALSE,
     delay |-> 0]

\* the class of the last direct response, for the claims about the block signal
signalOf(url, o) ==
    IF o.kind # "resp" \/ ~isHdfilmcehennemiUrl(url) THEN "other"
    ELSE IF o.status = 403 THEN "403"
    ELSE IF o.marker \in Markers THEN (IF Ok(o) THEN "challenge" ELSE "challenge-not-ok")
    ELSE "other"

triedHasNever(tried, proxy) == FALSE

\* scraper.js:267: triedProxies.has(proxy.address)
triedHas(tried, proxy) == proxy.address \in tried

\* scraper.js:254-291: iteration `proxyAttempt` of the proxy loop starts with
\* the call of getWorkingProxy; after the last one httpGet throws
ProxyLoop(c, f, proxyAttempt, cacheNow) ==
    IF proxyAttempt <= maxProxyAttempts
    THEN /\ GwCall(c, cacheNow)
         /\ ft' = [f EXCEPT ![c].pc = "getProxy", ![c].phase = "proxy",
                            ![c].proxyAttempt = proxyAttempt]
    ELSE /\ cache' = cacheNow
         /\ gw' = [gw EXCEPT ![c] = IdleGw]
         /\ ft' = [f EXCEPT ![c].pc = "done", ![c].result = "thrown",
                            ![c].lastError = AllProxiesFailed,
                            ![c].thrown = AllProxiesFailed]

\* scraper.js:249-294: after the direct phase, the proxy phase or the throw
Phase2(c, f, cacheNow) ==
    IF f[c].useProxy /\ isProxyEnabled /\ isHdfilmcehennemiUrl(f[c].url)
    THEN ProxyLoop(c, [f EXCEPT ![c].tried = {}], 1, cacheNow)
    ELSE /\ cache' = cacheNow
         /\ gw' = gw
         /\ ft' = [f EXCEPT ![c].pc = "done", ![c].result = "thrown",
                            ![c].thrown = IF f[c].lastError # NoError
                                          THEN f[c].lastError
                                          ELSE AllAttemptsFailed]

\* scraper.js:167-178: the call, up to the first request
HttpGet(c) ==
    /\ ft[c].pc = "idle"
    /\ \E url \in Urls :
         LET useProxy == isProxyAlways /\ isHdfilmcehennemiUrl(url)
             f == [ft EXCEPT ![c].url = url, ![c].useProxy = useProxy]
         IN  IF ~useProxy
             THEN /\ ft' = [f EXCEPT ![c].pc = afterAcquire(slots),
                                     ![c].phase = "direct", ![c].attempt = 1]
                  /\ slots' = acquireSlot(slots, c)
                  /\ UNCHANGED <<cache, gw>>
             ELSE /\ Phase2(c, f, cache)
                  /\ slots' = slots
    /\ UNCHANGED <<ts, dc, fc, mt, gv, policy, now, hist>>

\* scraper.js:185-243: a direct attempt ends
DirectResponse(c) ==
    /\ ft[c].pc = "wait"
    /\ ft[c].phase = "direct"
    /\ \E o \in Outcomes :
         LET verdict == directVerdict(ft[c].url, o)
             f == [ft EXCEPT ![c].sig = signalOf(ft[c].url, o),
                             ![c].blocked = @ \/ signalOf(ft[c].url, o) \in {"403", "challenge"},
                             ![c].timedOut = @ \/ o.kind = "abort"]
         IN  CASE verdict = "blocked" ->
                    /\ slots' = releaseSlot(slots)
                    /\ Phase2(c, resumed([f EXCEPT ![c].useProxy = TRUE], slots), cache)
               [] verdict = "success" ->
                    /\ slots' = releaseSlot(slots)
                    /\ ft' = resumed([f EXCEPT ![c].pc = "done", ![c].result = "text"],
                                     slots)
                    /\ UNCHANGED <<cache, gw>>
               [] verdict = "failure" /\ ft[c].attempt < maxRetries ->
                    /\ ft' = [f EXCEPT ![c].pc = "backoff", ![c].lastError = errorOf(o),
                                       ![c].delay = backoffDelay(ft[c].attempt)]
                    /\ UNCHANGED <<slots, cache, gw>>
               [] verdict = "failure" /\ ft[c].attempt >= maxRetries ->
                    /\ slots' = releaseSlot(slots)
                    /\ Phase2(c, resumed([f EXCEPT ![c].lastError = errorOf(o)], slots),
                              cache)
    /\ UNCHANGED <<ts, dc, fc, mt, gv, policy, now, hist>>

\* scraper.js:146-154 and 235-243: the backoff has ended: finally releaseSlot(),
\* then the next attempt
BackoffDone(c) ==
    /\ ft[c].pc = "backoff"
    /\ LET s1 == releaseSlot(slots)
       IN  /\ slots' = acquireSlot(s1, c)
           /\ ft' = [resumed(ft, slots) EXCEPT ![c].pc = afterAcquire(s1),
                                               ![c].attempt = @ + 1]
    /\ UNCHANGED <<ts, dc, fc, mt, gv, policy, cache, now, gw, hist>>

\* scraper.js:255-277: getWorkingProxy has answered
GotProxy(c) ==
    /\ ft[c].pc = "getProxy"
    /\ gw[c].pc = "returned"
    /\ LET proxy == gw[c].ret
       IN  IF proxy = NoProxy
           THEN /\ IF ft[c].proxyAttempt < maxProxyAttempts
                   THEN /\ ft' = [ft EXCEPT ![c].pc = "pause"]
                        /\ gw' = [gw EXCEPT ![c] = IdleGw]
                        /\ cache' = cache
                   ELSE ProxyLoop(c, ft, ft[c].proxyAttempt + 1, cache)
                /\ UNCHANGED <<slots, hist>>
           ELSE IF triedHas(ft[c].tried, proxy)
           THEN /\ ProxyLoop(c, ft, ft[c].proxyAttempt + 1, markProxyBad(cache, proxy))
                /\ hist' = markedBad(hist, cache, proxy)
                /\ slots' = slots
           ELSE /\ ft' = [ft EXCEPT ![c].pc = afterAcquire(slots), ![c].attempt = 1,
                                    ![c].proxy = proxy,
                                    ![c].tried = @ \cup {proxy.address},
                                    ![c].used = Append(@, proxy.address)]
                /\ slots' = acquireSlot(slots, c)
                /\ gw' = [gw EXCEPT ![c] = IdleGw]
                /\ UNCHANGED <<cache, hist>>
    /\ UNCHANGED <<ts, dc, fc, mt, gv, policy, now>>

\* scraper.js:260-263: the pause after "no working proxy" has ended
PauseDone(c) ==
    /\ ft[c].pc = "pause"
    /\ ProxyLoop(c, ft, ft[c].proxyAttempt + 1, cache)
    /\ UNCHANGED <<ts, dc, fc, mt, gv, policy, now, slots, hist>>

\* scraper.js:282-285: the proxy gave no body: markProxyBad, the next iteration
proxyFailed(c, f, cacheNow) ==
    ProxyLoop(c, f, f[c].proxyAttempt + 1, markProxyBad(cacheNow, f[c].proxy))

\* scraper.js:103-155 and 277-285: an attempt through the proxy ends
ProxyResponse(c) ==
    /\ ft[c].pc = "wait"
    /\ ft[c].phase = "proxy"
    /\ \E o \in Outcomes :
         LET verdict == proxyVerdict(o)
         IN  CASE verdict = "text" /\ o.len > 0 ->
                    /\ slots' = releaseSlot(slots)
                    /\ ft' = resumed([ft EXCEPT ![c].pc = "done", ![c].result = "text",
                                                ![c].sig = "proxy-body"],
                                     slots)
                    /\ UNCHANGED <<cache, gw, hist>>
               [] verdict = "null" \/ (verdict = "text" /\ o.len = 0)
                  \/ (verdict = "failure" /\ ft[c].attempt >= maxRetries) ->
                    /\ slots' = releaseSlot(slots)
                    /\ proxyFailed(c, resumed(ft, slots), cache)
                    /\ hist' = markedBad(hist, cache, ft[c].proxy)
               [] verdict = "failure" /\ ft[c].attempt < maxRetries ->
                    /\ ft' = [ft EXCEPT ![c].pc = "backoff",
                                        ![c].delay = backoffDelay(ft[c].attempt)]
                    /\ UNCHANGED <<slots, cache, gw, hist>>
    /\ UNCHANGED <<ts, dc, fc, mt, gv, policy, now>>

(***************************************************************************)
(* httpGet calls, several at a time, over the pool                         *)
(***************************************************************************)

NFetch == 1

\* a pool as earlier calls can have left it
LeftCaches ==
    { EmptyCache,
      [proxies |-> <<[address |-> 1, type |-> "http"]>>, timestamp |-> 1,
       workingProxies |-> <<[address |-> 1, type |-> "http"]>>],
      [proxies |-> <<[address |-> NAddr, type |-> "socks4"]>>, timestamp |-> 1,
       workingProxies |-> <<[address |-> 1, type |-> "http"],
                            [address |-> NAddr, type |-> "socks4"]>>] }

FetchInit ==
    /\ gv = GvInit
    /\ policy \in {"auto", "always", "never"}
    /\ cache \in LeftCaches
    /\ now = 1
    /\ gw = [c \in 1..NFetch |-> IdleGw]
    /\ ft = [c \in 1..NFetch |-> IdleFt]
    /\ slots = [activeRequests |-> 0, requestQueue |-> <<>>]
    /\ hist = [on |-> FALSE, bad |-> {}, refreshed |-> FALSE]
    /\ ts = <<>>
    /\ dc = <<>>
    /\ fc = <<>>
    /\ mt = <<>>

FetchNext ==
    \E c \in DOMAIN ft :
        \/ HttpGet(c)
        \/ DirectResponse(c)
        \/ BackoffDone(c)
        \/ GotProxy(c)
        \/ PauseDone(c)
        \/ ProxyResponse(c)
        \/ GwFetchDone(c)
        \/ GwTestDone(c)
        \/ GwBatchDone(c)
        \/ GwSleepDone(c)

SpecFetch == FetchInit /\ [][FetchNext]_vars


(***************************************************************************)
(* httpGet under every setting of PROXY_ENABLED, next to a caller of       *)
(* getWorkingProxy of its own while the setting is 'never'                 *)
(***************************************************************************)

PolicyInit ==
    /\ gv = GvInit
    /\ policy \in {"auto", "always", "never"}
    /\ cache \in LeftCaches
    /\ now = 1
    /\ gw = [c \in 1..(NFetch + 1) |-> IdleGw]
    /\ ft = [c \in 1..NFetch |-> IdleFt]
    /\ slots = [activeRequests |-> 0, requestQueue |-> <<>>]
    /\ hist = [on |-> FALSE, bad |-> {}, refreshed |-> FALSE]
    /\ ts = <<>>
    /\ dc = <<>>
    /\ fc = <<>>
    /\ mt = <<>>

\* a call of getWorkingProxy from outside httpGet while proxies are disabled
NeverCall(c) ==
    /\ policy = "never"
    /\ PoolCall(c)

PolicyNext ==
    \/ FetchNext
    \/ \E c \in (DOMAIN gw) \ (DOMAIN ft) :
         \/ NeverCall(c)
         \/ PoolTake(c)

SpecPolicy == PolicyInit /\ [][PolicyNext]_vars

(***************************************************************************)
(* search.js: fetchWithRetry, the fetcher of the matcher.  It takes no     *)
(* slot of the limiter and returns the response without reading its body.  *)
(***************************************************************************)

IdleFwr ==
    [pc |-> "idle", phase |-> "direct", url |-> CdnUrl, attempt |-> 0,
     useProxy |-> FALSE, lastError |-> NoError, proxy |-> NoProxy,
     result |-> "none", thrown |-> NoError, refused |-> FALSE, after |-> 0]

\* search.js:171 and 227: throw lastError || new NetworkError(...)
fwrThrow(f, c) ==
    [f EXCEPT ![c].pc = "done", ![c].result = "thrown",
              ![c].thrown = IF f[c].lastError # NoError THEN f[c].lastError
                            ELSE AllAttemptsFailed]

\* search.js:165-168 and 227: after the direct phase, the call of
\* getWorkingProxy or the throw
FwrPhase2(c, f, cacheNow) ==
    IF f[c].useProxy /\ isProxyEnabled /\ isHdfilmcehennemiUrl(f[c].url)
    THEN /\ GwCall(c, cacheNow)
         /\ ft' = [f EXCEPT ![c].pc = "getProxy", ![c].phase = "proxy"]
    ELSE /\ cache' = cacheNow
         /\ gw' = gw
         /\ ft' = fwrThrow(f, c)

\* search.js:105-122: the call, up to the first request
FetchWithRetry(c) ==
    /\ ft[c].pc = "idle"
    /\ \E url \in Urls :
         LET useProxy == isProxyAlways /\ isHdfilmcehennemiUrl(url)
             f == [ft EXCEPT ![c].url = url, ![c].useProxy = useProxy]
         IN  IF ~useProxy
             THEN /\ ft' = [f EXCEPT ![c].pc = "wait", ![c].attempt = 1]
                  /\ UNCHANGED <<cache, gw>>
             ELSE FwrPhase2(c, f, cache)
    /\ UNCHANGED <<ts, dc, fc, mt, gv, policy, now, slots, hist>>

\* search.js:119-160: a direct attempt ends
FwrDirectResponse(c) ==
    /\ ft[c].pc = "wait"
    /\ ft[c].phase = "direct"
    /\ \E o \in Outcomes :
         IF o.kind = "resp" /\ o.status = 403 /\ isHdfilmcehennemiUrl(ft[c].url)
         THEN FwrPhase2(c, [ft EXCEPT ![c].useProxy = TRUE], cache)
         ELSE IF o.kind = "resp" /\ Ok(o)
         THEN /\ ft' = [ft EXCEPT ![c].pc = "done", ![c].result = "response"]
              /\ UNCHANGED <<cache, gw>>
         ELSE IF ft[c].attempt < maxRetries
         THEN /\ ft' = [ft EXCEPT ![c].pc = "backoff", ![c].lastError = errorOf(o)]
              /\ UNCHANGED <<cache, gw>>
         ELSE FwrPhase2(c, [ft EXCEPT ![c].lastError = errorOf(o)], cache)
    /\ UNCHANGED <<ts, dc, fc, mt, gv, policy, now, slots, hist>>

\* search.js:155-159 and 218-222: the sleep has ended, the next attempt goes
\* out; `after` counts the requests sent through the proxy after its 403
FwrBackoffDone(c) ==
    /\ ft[c].pc = "backoff"
    /\ ft' = [ft EXCEPT ![c].pc = "wait", ![c].attempt = @ + 1,
                        ![c].after = @ + (IF ft[c].refused THEN 1 ELSE 0)]
    /\ UNCHANGED <<ts, dc, fc, mt, gv, policy, cache, now, gw, slots, hist>>

\* search.js:168-183: getWorkingProxy has answered
FwrGotProxy(c) ==
    /\ ft[c].pc = "getProxy"
    /\ gw[c].pc = "returned"
    /\ ft' = IF gw[c].ret = NoProxy THEN fwrThrow(ft, c)
             ELSE [ft EXCEPT ![c].pc = "wait", ![c].attempt = 1,
                             ![c].proxy = gw[c].ret]
    /\ gw' = [gw EXCEPT ![c] = IdleGw]
    /\ UNCHANGED <<ts, dc, fc, mt, gv, policy, cache, now, slots, hist>>

\* search.js:212-216: lastError after a failed attempt through the proxy
fwrProxyError(o) ==
    IF o.kind = "abort" THEN [name |-> "TimeoutError", status |-> 0]
    ELSE IF o.kind = "error" THEN [name |-> "TypeError", status |-> 0]
    ELSE [name |-> "NetworkError", status |-> o.status]

\* search.js:218-227: after a failed attempt through the proxy, the sleep
\* before the next one or, after the last, the throw
fwrAfterFailure(f, c, is403) ==
    IF f[c].attempt < maxRetries
    THEN [f EXCEPT ![c].pc = "backoff"]
    ELSE fwrThrow(f, c)

\* search.js:183-224: an attempt through the proxy ends
FwrProxyResponse(c) ==
    /\ ft[c].pc = "wait"
    /\ ft[c].phase = "proxy"
    /\ \E o \in Outcomes :
         IF o.kind = "resp" /\ Ok(o)
         THEN /\ ft' = [ft EXCEPT ![c].pc = "done", ![c].result = "response"]
              /\ cache' = cache
         ELSE LET is403 == o.kind = "resp" /\ o.status = 403
              IN  /\ cache' = IF is403 THEN markProxyBad(cache, ft[c].proxy)
                              ELSE cache
                  /\ ft' = fwrAfterFailure(
                              [ft EXCEPT ![c].lastError = fwrProxyError(o),
                                         ![c].refused = @ \/ is403],
                              c, is403)
    /\ UNCHANGED <<ts, dc, fc, mt, gv, policy, now, gw, slots, hist>>

FwrInit ==
    /\ gv = GvInit
    /\ policy \in {"auto", "always", "never"}
    /\ cache \in LeftCaches
    /\ now = 1
    /\ gw = [c \in 1..NFetch |-> IdleGw]
    /\ ft = [c \in 1..NFetch |-> IdleFwr]
    /\ slots = [activeRequests |-> 0, requestQueue |-> <<>>]
    /\ hist = [on |-> FALSE, bad |-> {}, refreshed |-> FALSE]
    /\ ts = <<>>
    /\ dc = <<>>
    /\ fc = <<>>
    /\ mt = <<>>

FwrNext ==
    \E c \in DOMAIN ft :
        \/ FetchWithRetry(c)
        \/ FwrDirectResponse(c)
        \/ FwrBackoffDone(c)
        \/ FwrGotProxy(c)
        \/ FwrProxyResponse(c)
        \/ GwFetchDone(c)
        \/ GwTestDone(c)
        \/ GwBatchDone(c)
        \/ GwSleepDone(c)

SpecMatcherFetch == FwrInit /\ [][FwrNext]_vars

(***************************************************************************)
(* scraper.js: the limiter alone, under more callers than slots.  A caller *)
(* is one httpGet or tryFetchWithProxy; of its attempts only what they do  *)
(* to the limiter is kept, so a caller may fail and retry any number of    *)
(* times.                                                                  *)
(***************************************************************************)

NLim == 7

\* the callers still queued, in the order of `arrivals`
stillWaiting(arrivals, f) == SelectSeq(arrivals, LAMBDA x : f[x].pc = "queued")

\* the history of the queue: who queued, in order of arrival, less who was
\* admitted
arrived(h, f, c) ==
    [h EXCEPT !.arrivals =
        IF f[c].pc = "queued" THEN Append(stillWaiting(@, f), c)
        ELSE stillWaiting(@, f)]

\* scraper.js:95 and 178: `await acquireSlot()` at the start of an attempt
LimAttempt(c) ==
    /\ ft[c].pc = "idle"
    /\ slots' = acquireSlot(slots, c)
    /\ ft' = [ft EXCEPT ![c].pc = afterAcquire(slots)]
    /\ hist' = arrived(hist, ft', c)
    /\ UNCHANGED <<ts, dc, fc, mt, gv, policy, cache, now, gw>>

\* scraper.js:152-154 and 244-246: the attempt ends with a return, a break or
\* its last failure: `finally { releaseSlot() }`
LimAttemptEnds(c) ==
    /\ ft[c].pc = "wait"
    /\ slots' = releaseSlot(slots)
    /\ ft' = resumed([ft EXCEPT ![c].pc = "idle"], slots)
    /\ hist' = arrived(hist, ft', c)
    /\ UNCHANGED <<ts, dc, fc, mt, gv, policy, cache, now, gw>>

LimAttemptFailsReleasing(c) ==
    /\ ft[c].pc = "wait"
    /\ slots' = releaseSlot(slots)
    /\ ft' = resumed([ft EXCEPT ![c].pc = "backoff"], slots)
    /\ UNCHANGED <<ts, dc, fc, mt, gv, policy, cache, now, gw, hist>>

\* scraper.js:138-150 and 226-243: the attempt failed and another one
\* follows: the caller sleeps in the catch block, its slot not yet released
LimAttemptFails(c) ==
    /\ ft[c].pc = "wait"
    /\ ft' = [ft EXCEPT ![c].pc = "backoff"]
    /\ UNCHANGED <<ts, dc, fc, mt, gv, policy, cache, now, gw, slots, hist>>

\* the sleep has ended: `finally { releaseSlot() }`, then `await
\* acquireSlot()` of the next attempt
LimBackoffDone(c) ==
    /\ ft[c].pc = "backoff"
    /\ LET s1 == releaseSlot(slots)
       IN  /\ slots' = acquireSlot(s1, c)
           /\ ft' = [resumed(ft, slots) EXCEPT ![c].pc = afterAcquire(s1)]
    /\ hist' = arrived(hist, ft', c)
    /\ UNCHANGED <<ts, dc, fc, mt, gv, policy, cache, now, gw>>

LimInit ==
    /\ gv = GvInit
    /\ policy = "never"
    /\ cache = EmptyCache
    /\ now = 1
    /\ gw = <<>>
    /\ ft = [c \in 1..NLim |-> [pc |-> "idle"]]
    /\ slots = [activeRequests |-> 0, requestQueue |-> <<>>]
    /\ hist = [on |-> FALSE, bad |-> {}, refreshed |-> FALSE, arrivals |-> <<>>]
    /\ ts = <<>>
    /\ dc = <<>>
    /\ fc = <<>>
    /\ mt = <<>>

LimNext ==
    \E c \in DOMAIN ft :
        \/ LimAttempt(c)
        \/ LimAttemptEnds(c)
        \/ LimAttemptFails(c)
        \/ LimBackoffDone(c)

SpecLimiter == LimInit /\ [][LimNext]_vars

\* every request gets its answer or its abort (the 15 s timeout), every sleep
\* ends
SpecLimiterFair ==
    /\ SpecLimiter
    /\ \A c \in 1..NLim : WF_vars(LimAttemptEnds(c)) /\ WF_vars(LimBackoffDone(c))

(***************************************************************************)
(* The requests of the process: callers of the limiter next to a call of   *)
(* getWorkingProxy, whose feed downloads and proxy tests go out without    *)
(* acquireSlot.                                                            *)
(***************************************************************************)

NTraffic == 6

\* HTTP_SOURCES, SOCKS4_SOURCES and SOCKS5_SOURCES together (proxy.js:40)
feedSources == 5

\* requests of httpGet and tryFetchWithProxy that are out
scraperInFlight == Cardinality({c \in DOMAIN ft : ft[c].pc = "wait"})

\* proxy.js:114-120: the downloads of one fetchProxyList, all out at once
feedsInFlight ==
    Cardinality({<<c, k>> \in (DOMAIN gw) \X (1..feedSources) : gw[c].pc = "fetching"})

\* proxy.js:251-256: the tests of a batch, all out at once
testsInFlight ==
    Cardinality(UNION {{<<c, i>> : i \in {j \in 1..Len(gw[c].toTest) :
                                            gw[c].pc = "testing" /\ ~gw[c].results[j].done}} :
                       c \in DOMAIN gw})

InFlight == scraperInFlight + feedsInFlight + testsInFlight

TrafficInit ==
    /\ gv = GvInit
    /\ policy = "auto"
    /\ cache = EmptyCache
    /\ now = 1
    /\ gw = [c \in 1..1 |-> IdleGw]
    /\ ft = [c \in 1..NTraffic |-> [pc |-> "idle"]]
    /\ slots = [activeRequests |-> 0, requestQueue |-> <<>>]
    /\ hist = [on |-> FALSE, bad |-> {}, refreshed |-> FALSE, arrivals |-> <<>>]
    /\ ts = <<>>
    /\ dc = <<>>
    /\ fc = <<>>
    /\ mt = <<>>

TrafficNext ==
    \/ \E c \in DOMAIN ft :
         \/ LimAttempt(c)
         \/ LimAttemptEnds(c)
         \/ LimAttemptFails(c)
         \/ LimBackoffDone(c)
    \/ \E c \in DOMAIN gw :
         \/ PoolCall(c)
         \/ PoolTake(c)
         \/ GwFetchDone(c)
         \/ GwTestDone(c)
         \/ GwBatchDone(c)
         \/ GwSleepDone(c)

SpecTraffic == TrafficInit /\ [][TrafficNext]_vars

(***************************************************************************)
(* getVideoAndSubtitles alone                                              *)
(***************************************************************************)

ScrapeInit ==
    /\ gv = GvInit
    /\ policy = "auto"
    /\ cache = EmptyCache
    /\ now = 1
    /\ gw = <<>>
    /\ ft = <<>>
    /\ slots = [activeRequests |-> 0, requestQueue |-> <<>>]
    /\ hist = [on |-> FALSE, bad |-> {}, refreshed |-> FALSE]
    /\ ts = <<>>
    /\ dc = <<>>
    /\ fc = <<>>
    /\ mt = <<>>

SpecScrape == ScrapeInit /\ [][GvNext]_vars

(***************************************************************************)
(* search.js: the matcher.  A title is a sequence of characters; the       *)
(* letters of the model are the pair "ab" (upper case "AB"), "c" and "ç",  *)
(* next to the space and the hyphen.  No word over "ab" and "c" occurs in  *)
(* another one except at a boundary of these letters, so String.includes   *)
(* on the characters is the search for a run of them.                      *)
(***************************************************************************)

MaxTitle == 4

TitleChars == {"ab", "AB", "c", " ", "-"}

Titles == SeqsUpTo(TitleChars, MaxTitle)

\* String.length of one letter of the model
charLength(ch) == IF ch \in {"ab", "AB"} THEN 2 ELSE 1

RECURSIVE length(_)
length(s) == IF s = <<>> THEN 0 ELSE charLength(Head(s)) + length(Tail(s))

toLowerCase(s) == [i \in DOMAIN s |-> IF s[i] = "AB" THEN "ab" ELSE s[i]]

\* .replace(/[:\-–—]/g, ' ')
replaceDashes(s) == [i \in DOMAIN s |-> IF s[i] = "-" THEN " " ELSE s[i]]

\* .replace(/\s+/g, ' ')
RECURSIVE collapseSpaces(_)
collapseSpaces(s) ==
    IF Len(s) < 2 THEN s
    ELSE IF s[1] = " " /\ s[2] = " " THEN collapseSpaces(Tail(s))
    ELSE <<s[1]>> \o collapseSpaces(Tail(s))

RECURSIVE trimStart(_)
trimStart(s) == IF s # <<>> /\ Head(s) = " " THEN trimStart(Tail(s)) ELSE s

RECURSIVE trimEnd(_)
trimEnd(s) ==
    IF s # <<>> /\ s[Len(s)] = " " THEN trimEnd(SubSeq(s, 1, Len(s) - 1)) ELSE s

trim(s) == trimEnd(trimStart(s))

normalizeTitle(title) == trim(collapseSpaces(replaceDashes(toLowerCase(title))))

turkishToAscii(str) == [i \in DOMAIN str |-> IF str[i] = "ç" THEN "c" ELSE str[i]]

\* s.split(' '): the pieces between the spaces, the empty ones too
RECURSIVE split(_)
split(s) ==
    LET spaces == {i \in DOMAIN s : s[i] = " "}
    IN  IF spaces = {} THEN <<s>>
        ELSE LET i == CHOOSE k \in spaces : \A j \in spaces : k <= j
             IN  <<SubSeq(s, 1, i - 1)>> \o split(SubSeq(s, i + 1, Len(s)))

\* s.includes(part)
includes(s, part) ==
    \E i \in 0..(Len(s) - Len(part)) : SubSeq(s, i + 1, i + Len(part)) = part

\* s.split(' ').filter(w => w.length > 1)
words(s) == SelectSeq(split(s), LAMBDA w : length(w) > 1)

\* words2.some(w2 => w2.includes(w1) || w1.includes(w2))
someIncludes(words2, w1) ==
    \E j \in DOMAIN words2 : includes(words2[j], w1) \/ includes(w1, words2[j])

\* the count of the loop over words1
matches(words1, words2) ==
    Cardinality({i \in DOMAIN words1 : someIncludes(words2, words1[i])})

max(a, b) == IF a >= b THEN a ELSE b

\* Scores are counted in sixtieths: 1 is ScoreScale, 0.1 is ScoreScale \div 10,
\* and matches / maxLen is exact for up to six words.
ScoreScale == 60

calculateSimilarityOverWords1(str1, str2) ==
    LET s1 == normalizeTitle(str1)
        s2 == normalizeTitle(str2)
        words1 == words(s1)
    IN  IF s1 = s2 THEN ScoreScale
        ELSE IF Len(words1) > 0
             THEN (matches(words1, words(s2)) * ScoreScale) \div Len(words1)
             ELSE 0

calculateSimilarityOverWords2(str1, str2) ==
    LET s1 == normalizeTitle(str1)
        s2 == normalizeTitle(str2)
        words2 == words(s2)
    IN  IF s1 = s2 THEN ScoreScale
        ELSE IF Len(words2) > 0
             THEN (matches(words(s1), words2) * ScoreScale) \div Len(words2)
             ELSE 0

calculateSimilarity(str1, str2) ==
    LET s1 == normalizeTitle(str1)
        s2 == normalizeTitle(str2)
        words1 == words(s1)
        words2 == words(s2)
        maxLen == max(Len(words1), Len(words2))
    IN  IF s1 = s2 THEN ScoreScale
        ELSE IF maxLen > 0
             THEN (matches(words1, words2) * ScoreScale) \div maxLen
             ELSE 0

\* Year match bonus (search.js:395-401); a year is a number, and 0 stands for
\* the falsy ones: null, 0 and NaN
yearBonus(resultYear, targetYear) ==
    IF targetYear # 0 /\ resultYear # 0
    THEN IF resultYear = targetYear THEN 3 * (ScoreScale \div 10)
         ELSE IF resultYear - targetYear \in -1..1 THEN ScoreScale \div 10
         ELSE 0
    ELSE 0

\* Slug contains title bonus (search.js:404-408)
slugBonus(slug, targetTitle) ==
    LET slugNorm == normalizeTitle(turkishToAscii(slug))
        titleNorm == normalizeTitle(turkishToAscii(targetTitle))
    IN  IF includes(slugNorm, split(titleNorm)[1]) THEN 2 * (ScoreScale \div 10)
        ELSE 0

\* the score of one result in the loop of findBestMatch
score(result, targetTitle, targetYear) ==
    calculateSimilarity(result.title, targetTitle)
    + yearBonus(result.year, targetYear)
    + slugBonus(result.slug, targetTitle)

threshold == 4 * (ScoreScale \div 10)

\* The loop of findBestMatch from result i on: the position of bestMatch in
\* results (0 for null) and bestScore.
RECURSIVE bestFrom(_, _, _, _, _)
bestFrom(results, targetTitle, targetYear, i, best) ==
    IF i > Len(results) THEN best
    ELSE LET sc == score(results[i], targetTitle, targetYear)
         IN  bestFrom(results, targetTitle, targetYear, i + 1,
                      IF sc > best.bestScore
                      THEN [bestMatch |-> i, bestScore |-> sc]
                      ELSE best)

RECURSIVE firstFrom(_, _, _, _, _)
firstFrom(results, targetTitle, targetYear, i, best) ==
    IF i > Len(results) THEN best
    ELSE LET sc == score(results[i], targetTitle, targetYear)
         IN  firstFrom(results, targetTitle, targetYear, i + 1,
                       IF sc > 0 /\ best.bestMatch = 0
                       THEN [bestMatch |-> i, bestScore |-> sc]
                       ELSE best)

findBestMatchFirstScored(results, targetTitle, targetYear) ==
    LET best == firstFrom(results, targetTitle, targetYear, 1,
                          [bestMatch |-> 0, bestScore |-> 0])
    IN  IF best.bestScore >= threshold THEN best.bestMatch ELSE 0

\* findBestMatch: the position in results of the result returned, 0 for null
findBestMatch(results, targetTitle, targetYear) ==
    LET best == bestFrom(results, targetTitle, targetYear, 1,
                         [bestMatch |-> 0, bestScore |-> 0])
    IN  IF Len(results) = 0 THEN 0
        ELSE IF best.bestScore >= threshold THEN best.bestMatch
        ELSE 0

(***************************************************************************)
(* calculateSimilarity applied to a pair of titles, in both orders         *)
(***************************************************************************)

SimInit ==
    /\ gv = <<>>
    /\ policy = "never"
    /\ cache = EmptyCache
    /\ now = 0
    /\ gw = <<>>
    /\ ft = <<>>
    /\ slots = [activeRequests |-> 0, requestQueue |-> <<>>]
    /\ hist = [on |-> FALSE, bad |-> {}, refreshed |-> FALSE]
    /\ ts = <<>>
    /\ dc = <<>>
    /\ fc = <<>>
    /\ mt \in [A : Titles, B : Titles, returned : {{}}, AB : {0}, BA : {0}]

\* calculateSimilarity(A, B)
SimilarityAB ==
    /\ "AB" \notin mt.returned
    /\ mt' = [mt EXCEPT !.AB = calculateSimilarity(mt.A, mt.B),
                        !.returned = @ \cup {"AB"}]
    /\ UNCHANGED <<ts, dc, gv, policy, cache, now, gw, ft, slots, hist, fc>>

\* calculateSimilarity(B, A)
SimilarityBA ==
    /\ "BA" \notin mt.returned
    /\ mt' = [mt EXCEPT !.BA = calculateSimilarity(mt.B, mt.A),
                        !.returned = @ \cup {"BA"}]
    /\ UNCHANGED <<ts, dc, gv, policy, cache, now, gw, ft, slots, hist, fc>>

SimNext == SimilarityAB \/ SimilarityBA

SpecSimilarity == SimInit /\ [][SimNext]_vars

(***************************************************************************)
(* findBestMatch applied to a list of search results                       *)
(***************************************************************************)

MaxResults == 3

\* titles of one and two words, of the results and of the target
MatchTitles == {<<"ab">>, <<"ab", " ", "c", "c">>, <<"c", "c">>}

\* a result of searchOnSite (search.js:331-337), less its url and type
SearchResults ==
    [title : MatchTitles, year : {0, 2020, 2021, 2025},
     slug : {<<"ab">>, <<"ç", "c">>}]

BestMatchInit ==
    /\ gv = <<>>
    /\ policy = "never"
    /\ cache = EmptyCache
    /\ now = 0
    /\ gw = <<>>
    /\ ft = <<>>
    /\ slots = [activeRequests |-> 0, requestQueue |-> <<>>]
    /\ hist = [on |-> FALSE, bad |-> {}, refreshed |-> FALSE]
    /\ ts = <<>>
    /\ dc = <<>>
    /\ fc = <<>>
    /\ mt \in [results : SeqsUpTo(SearchResults, MaxResults),
               targetTitle : MatchTitles, targetYear : {0, 2020},
               returned : {FALSE}, bestMatch : {0}]

\* findBestMatch(results, targetTitle, targetYear)
FindBestMatch ==
    /\ ~mt.returned
    /\ mt' = [mt EXCEPT !.returned = TRUE,
                        !.bestMatch = findBestMatch(mt.results, mt.targetTitle,
                                                    mt.targetYear)]
    /\ UNCHANGED <<ts, dc, gv, policy, cache, now, gw, ft, slots, hist, fc>>

SpecBestMatch == BestMatchInit /\ [][FindBestMatch]_vars

(***************************************************************************)
(* search.js: findContent.  An argument is a JavaScript value: undefined,  *)
(* a number, or a string, which is a sequence of characters.  In an        *)
(* identifier "t" is the letter t, "d" any digit and "x" any other         *)
(* character; in a season or episode the characters are "1" and "x".         *)
(* Of fetchWithRetry only its end is kept: a response or an error.         *)
(***************************************************************************)

MaxEpisodeLen == 2

Undefined == [typeof |-> "undefined", n |-> 0, s |-> <<>>]
Num(n) == [typeof |-> "number", n |-> n, s |-> <<>>]
Str(s) == [typeof |-> "string", n |-> 0, s |-> s]

\* !!value
isTruthy(value) ==
    CASE value.typeof = "undefined" -> FALSE
      [] value.typeof = "number" -> value.n # 0
      [] value.typeof = "string" -> value.s # <<>>

Repeat(ch, n) == [i \in 1..n |-> ch]

\* identifiers: an optional other character, t's, digits, an optional other
\* character; and two values that are not strings
ImdbIds ==
    {Str(Repeat("x", pre) \o Repeat("t", t) \o Repeat("d", d) \o Repeat("x", suf)) :
        pre \in {0, 1}, t \in {1, 2}, d \in {6, 7, 8, 9}, suf \in {0, 1}}
    \cup {Str(<<>>), Undefined, Num(1234567)}

EpisodeValues ==
    {Undefined} \cup {Num(n) : n \in {-1, 0, 1, 1000}}
    \cup {Str(s) : s \in SeqsUpTo({"1", "x"}, MaxEpisodeLen)}

ContentTypes == {"movie", "series", "tv"}

\* /^tt\d{7,8}$/.test(imdbId)
isValidImdbIdUnanchored(imdbId) ==
    /\ Len(imdbId) >= 9
    /\ imdbId[1] = "t"
    /\ imdbId[2] = "t"
    /\ \A i \in 3..9 : imdbId[i] = "d"

isValidImdbId(imdbId) ==
    /\ Len(imdbId) \in {9, 10}
    /\ imdbId[1] = "t"
    /\ imdbId[2] = "t"
    /\ \A i \in 3..Len(imdbId) : imdbId[i] = "d"

RECURSIVE leadingDigits(_)
leadingDigits(s) ==
    IF s # <<>> /\ Head(s) \in {"0", "1"}
    THEN <<Head(s)>> \o leadingDigits(Tail(s))
    ELSE <<>>

RECURSIVE decimal(_)
decimal(digits) ==
    IF digits = <<>> THEN 0
    ELSE 10 * decimal(SubSeq(digits, 1, Len(digits) - 1))
         + (IF digits[Len(digits)] = "1" THEN 1 ELSE 0)

\* parseInt(value): the digits a string starts with, NaN when there is none
parseInt(value) ==
    CASE value.typeof = "number" -> [isNaN |-> FALSE, num |-> value.n]
      [] value.typeof = "string" ->
            LET digits == leadingDigits(value.s)
            IN  [isNaN |-> digits = <<>>, num |-> decimal(digits)]
      [] value.typeof = "undefined" -> [isNaN |-> TRUE, num |-> 0]

isValidEpisodeNumber(value) ==
    LET num == parseInt(value)
    IN  ~num.isNaN /\ num.num > 0 /\ num.num < 1000

\* new ValidationError(message, field, value) (errors.js:132-136)
ValidationError(field) ==
    [error |-> "ValidationError", field |-> field, query |-> Undefined]

\* new ContentNotFoundError(query, details) (errors.js:41-45)
ContentNotFoundErrorNoQuery(query) ==
    [error |-> "ContentNotFoundError", field |-> "", query |-> Undefined]

ContentNotFoundError(query) ==
    [error |-> "ContentNotFoundError", field |-> "", query |-> query]

NoThrow == [error |-> "", field |-> "", query |-> Undefined]

\* The input validation of findContent (search.js:515-534): the error thrown,
\* NoThrow when there is none.
validation(type, imdbId, season, episode) ==
    IF ~isTruthy(imdbId) \/ imdbId.typeof # "string" THEN ValidationError("imdbId")
    ELSE IF ~isValidImdbId(imdbId.s) THEN ValidationError("imdbId")
    ELSE IF type # "movie" /\ type # "series" THEN ValidationError("type")
    ELSE IF type = "series" /\ isTruthy(season) /\ ~isValidEpisodeNumber(season)
         THEN ValidationError("season")
    ELSE IF type = "series" /\ isTruthy(episode) /\ ~isValidEpisodeNumber(episode)
         THEN ValidationError("episode")
    ELSE NoThrow

\* what the site's search answers: the results parsed from it
FoundResults ==
    {[title |-> <<"ab", " ", "c", "c">>, year |-> 2020, slug |-> <<"ab">>],
     [title |-> <<"c">>, year |-> 2021, slug |-> <<"ç", "c">>]}

MaxFound == 2

ResultLists == SeqsUpTo(FoundResults, MaxFound)

\* data.meta of Cinemeta: name and originalTitle are <<>> when missing or
\* empty, year is 0 when missing
Metas ==
    {[name |-> <<>>, year |-> 0, originalTitle |-> <<>>],
     [name |-> <<"ab", " ", "c", "c">>, year |-> 2020, originalTitle |-> <<>>],
     [name |-> <<"ab", "ab">>, year |-> 0, originalTitle |-> <<"ab", " ", "c", "c">>]}

\* cache keys (search.js:237, 300, 435)
searchKey(query) == <<"search:">> \o query
metaKey(type, imdbId) == <<"meta:", type, ":">> \o imdbId
episodesKey == <<"episodes:">>

\* getCached(key): <<data>> of a fresh entry, <<>> for null.  The data are a
\* sequence: the results, the meta alone, the episode list.
getCached(store, key) ==
    IF \E e \in store : e.key = key
    THEN <<(CHOOSE e \in store : e.key = key).data>>
    ELSE <<>>

\* setCache(key, data)
setCache(store, key, data) ==
    {e \in store : e.key # key} \cup {[key |-> key, data |-> data]}

\* A function of search.js that reads the cache and, on a miss, sends its
\* request (searchOnSite, getMetaFromCinemeta, findEpisodeUrl up to the await).
lookup(f, pc, key) ==
    LET cached == getCached(f.store, key)
    IN  [f EXCEPT !.pc = pc,
                  !.key = key,
                  !.cached = cached,
                  !.reads = @ + 1,
                  !.requests = @ + (IF cached = <<>> THEN 1 ELSE 0)]

\* searchOnSite(query) up to its await
searchOnSite(f, pc, query) == lookup(f, pc, searchKey(query))

\* what the awaited function resolves to: the cached data, or the data of the
\* response, which it caches; an error is <<>> and nothing is cached
resolved(f, response) ==
    IF f.cached # <<>> THEN [f EXCEPT !.data = f.cached]
    ELSE IF response = <<>> THEN [f EXCEPT !.data = <<>>]
    ELSE [f EXCEPT !.data = response,
                   !.store = setCache(@, f.key, response[1]),
                   !.writes = @ + 1]

\* the results searchOnSite returns: [] after an error
resultsOf(f) == IF f.data = <<>> THEN <<>> ELSE f.data[1]

throw(f, error) == [f EXCEPT !.pc = "threw", !.out = error]

\* title.split(/[\s:\-–—]+/)[0]
firstWord(title) == split(collapseSpaces(replaceDashes(title)))[1]

\* searchQueries (search.js:565-575)
searchQueries(meta) ==
    <<meta.name>>
    \o (IF meta.originalTitle # <<>> /\ meta.originalTitle # meta.name
        THEN <<meta.originalTitle>> ELSE <<>>)
    \o (IF firstWord(meta.name) # <<>> /\ length(firstWord(meta.name)) >= 4
        THEN <<firstWord(meta.name)>> ELSE <<>>)

\* search.js:598-621 up to the await of findEpisodeUrl: match is set
matched(f, match) ==
    LET g == [f EXCEPT !.match = <<match>>]
    IN  IF f.type = "series" /\ isTruthy(f.season) /\ isTruthy(f.episode)
        THEN lookup(g, "episodes", episodesKey)
        ELSE [g EXCEPT !.pc = "returned"]

\* findContent from its call to its first await
FindContent ==
    /\ fc.pc = "called"
    /\ LET error == validation(fc.type, fc.imdbId, fc.season, fc.episode)
       IN  fc' = IF error # NoThrow THEN throw(fc, error)
                 ELSE searchOnSite(fc, "idSearch", fc.imdbId.s)
    /\ UNCHANGED <<ts, dc, gv, policy, cache, now, gw, ft, slots, hist, mt>>

\* searchOnSite(imdbId) resolves (search.js:542-558)
IdSearchDone(response) ==
    /\ fc.pc = "idSearch"
    /\ LET f == resolved(fc, response)
           g == [f EXCEPT !.yielded = Len(resultsOf(f)) > 0]
       IN  fc' = IF Len(resultsOf(f)) > 0 THEN matched(g, resultsOf(f)[1])
                 ELSE lookup(g, "meta", metaKey(fc.type, fc.imdbId.s))
    /\ UNCHANGED <<ts, dc, gv, policy, cache, now, gw, ft, slots, hist, mt>>

\* getMetaFromCinemeta resolves (search.js:554-581); a response without
\* data.meta resolves to null like an error
MetaDone(response) ==
    /\ fc.pc = "meta"
    /\ LET f == resolved(fc, response)
           meta == f.data[1][1]
       IN  fc' = IF f.data = <<>> \/ meta.name = <<>>
                 THEN throw(f, ContentNotFoundError(fc.imdbId))
                 ELSE searchOnSite([f EXCEPT !.meta = <<meta>>,
                                             !.queries = searchQueries(meta)],
                                   "titleSearch", meta.name)
    /\ UNCHANGED <<ts, dc, gv, policy, cache, now, gw, ft, slots, hist, mt>>

\* the match of one pass of the loop (search.js:583-589), 0 for none
loopMatch(results, meta) ==
    IF Len(results) = 0 THEN 0
    ELSE LET byTitle == findBestMatch(results, meta.name, meta.year)
         IN  IF byTitle = 0 /\ meta.originalTitle # <<>>
             THEN findBestMatch(results, meta.originalTitle, meta.year)
             ELSE byTitle

\* some result reaches the threshold against the title or the original title
clears(results, meta) ==
    \E i \in DOMAIN results :
        \/ score(results[i], meta.name, meta.year) >= threshold
        \/ /\ meta.originalTitle # <<>>
           /\ score(results[i], meta.originalTitle, meta.year) >= threshold

\* searchOnSite(query) of the loop resolves (search.js:577-596)
TitleSearchDone(response) ==
    /\ fc.pc = "titleSearch"
    /\ LET f == resolved(fc, response)
           results == resultsOf(f)
           g == [f EXCEPT !.yielded = clears(results, fc.meta[1]),
                          !.queries = Tail(@)]
           match == loopMatch(results, fc.meta[1])
       IN  fc' = IF match # 0 THEN matched(g, results[match])
                 ELSE IF g.queries # <<>>
                      THEN searchOnSite(g, "titleSearch", Head(g.queries))
                 ELSE throw(g, ContentNotFoundError(fc.imdbId))
    /\ UNCHANGED <<ts, dc, gv, policy, cache, now, gw, ft, slots, hist, mt>>

\* findEpisodeUrl resolves (search.js:602-615); of the episode list only
\* whether it holds the episode is kept
EpisodesDone(response) ==
    /\ fc.pc = "episodes"
    /\ LET f == resolved(fc, response)
       IN  fc' = IF f.data # <<>> /\ f.data[1][1].found
                 THEN [f EXCEPT !.pc = "returned"]
                 ELSE throw(f, ContentNotFoundError(
                                   Str(fc.match[1].title \o <<" S", "E">>)))
    /\ UNCHANGED <<ts, dc, gv, policy, cache, now, gw, ft, slots, hist, mt>>

SearchResponses == {<<>>} \cup {<<results>> : results \in ResultLists}

MetaResponses == {<<>>} \cup {<< <<meta>> >> : meta \in Metas}

EpisodeResponses == {<<>>} \cup {<< <<[found |-> b]>> >> : b \in BOOLEAN}

\* the cache when findContent is called: empty, or left by earlier calls
InitialStores(type, imdbId) ==
    {{},
     {[key |-> searchKey(imdbId.s),
       data |-> <<[title |-> <<"ab", " ", "c", "c">>, year |-> 2020,
                   slug |-> <<"ab">>]>>]},
     {[key |-> searchKey(imdbId.s), data |-> <<>>],
      [key |-> metaKey(type, imdbId.s),
       data |-> <<[name |-> <<"ab", "ab">>, year |-> 0,
                   originalTitle |-> <<"ab", " ", "c", "c">>]>>]}}

FcInit ==
    /\ gv = <<>>
    /\ policy = "never"
    /\ cache = EmptyCache
    /\ now = 0
    /\ gw = <<>>
    /\ ft = <<>>
    /\ slots = [activeRequests |-> 0, requestQueue |-> <<>>]
    /\ hist = [on |-> FALSE, bad |-> {}, refreshed |-> FALSE]
    /\ ts = <<>>
    /\ dc = <<>>
    /\ mt = <<>>
    /\ \E type \in ContentTypes, imdbId \in ImdbIds :
       \E season \in EpisodeValues, episode \in EpisodeValues :
       \E store \in InitialStores(type, imdbId) :
           fc = [pc |-> "called", type |-> type, imdbId |-> imdbId,
                 season |-> season, episode |-> episode,
                 store |-> store, key |-> <<>>, cached |-> <<>>, data |-> <<>>,
                 match |-> <<>>, meta |-> <<>>, queries |-> <<>>,
                 yielded |-> FALSE, reads |-> 0, writes |-> 0, requests |-> 0,
                 out |-> NoThrow]

FcNext ==
    \/ FindContent
    \/ \E response \in SearchResponses : IdSearchDone(response)
    \/ \E response \in MetaResponses : MetaDone(response)
    \/ \E response \in SearchResponses : TitleSearchDone(response)
    \/ \E response \in EpisodeResponses : EpisodesDone(response)

SpecFind == FcInit /\ [][FcNext]_vars

(***************************************************************************)
(* findContent called again by the stream handler of addon.js after the    *)
(* extraction that followed a match has failed; the cache of search.js     *)
(* lives as long as the process.                                           *)
(***************************************************************************)

MaxCalls == 2

\* the state of findContent at its call
calledWith(type, imdbId, season, episode, store, calls) ==
    [pc |-> "called", type |-> type, imdbId |-> imdbId,
     season |-> season, episode |-> episode,
     store |-> store, key |-> <<>>, cached |-> <<>>, data |-> <<>>,
     match |-> <<>>, meta |-> <<>>, queries |-> <<>>,
     yielded |-> FALSE, reads |-> 0, writes |-> 0, requests |-> 0,
     out |-> NoThrow, calls |-> calls]

\* addon.js:68-76: findContent has returned a match, getVideoAndSubtitles has
\* returned null for its url, and the same stream request arrives again
FindContentAgain ==
    /\ fc.pc = "returned"
    /\ fc.calls < MaxCalls
    /\ fc' = calledWith(fc.type, fc.imdbId, fc.season, fc.episode, fc.store,
                        fc.calls + 1)
    /\ UNCHANGED <<ts, dc, gv, policy, cache, now, gw, ft, slots, hist, mt>>

\* search.js:81-86: between two calls an entry has become older than
\* CACHE_TTL, and getCached no longer returns it
CacheExpires ==
    /\ fc.pc = "returned"
    /\ \E e \in fc.store : fc' = [fc EXCEPT !.store = @ \ {e}]
    /\ UNCHANGED <<ts, dc, gv, policy, cache, now, gw, ft, slots, hist, mt>>

AgainInit ==
    /\ gv = <<>>
    /\ policy = "never"
    /\ cache = EmptyCache
    /\ now = 0
    /\ gw = <<>>
    /\ ft = <<>>
    /\ slots = [activeRequests |-> 0, requestQueue |-> <<>>]
    /\ hist = [on |-> FALSE, bad |-> {}, refreshed |-> FALSE]
    /\ ts = <<>>
    /\ dc = <<>>
    /\ mt = <<>>
    /\ \E type \in ContentTypes, episode \in {Undefined, Num(1)} :
           fc = calledWith(type, Str(<<"t", "t">> \o Repeat("d", 7)),
                           episode, episode, {}, 1)

AgainNext ==
    \/ FcNext
    \/ FindContentAgain
    \/ CacheExpires

SpecFindAgain == AgainInit /\ [][AgainNext]_vars

(***************************************************************************)
(* search.js: findContent from its match on, with findEpisodeUrl.  A link  *)
(* of the series page is kept as the format of its href ("dash" for        *)
(* N-sezon-M-bolum, "slash" for sezon-N/bolum-M) with the two numbers      *)
(* written in it; the link is its own url.                                 *)
(***************************************************************************)

MaxLinks == 2

LinkNumbers == {1, 11}

Links == [format : {"dash", "slash"}, season : LinkNumbers, episode : LinkNumbers]

SeriesPages == SeqsUpTo(Links, MaxLinks)

\* the values of season and episode that pass the validation of findContent
RequestValues ==
    {v \in EpisodeValues : ~isTruthy(v) \/ isValidEpisodeNumber(v)}

\* search.js:445-479: the episodes found in the links of the page: those of
\* the first format or, when there is none, those of the other
episodesOf(page) ==
    LET dash == SelectSeq(page, LAMBDA l : l.format = "dash")
    IN  IF Len(dash) > 0 THEN dash
        ELSE SelectSeq(page, LAMBDA l : l.format = "slash")

findAnySeason(episodes, season, episode) ==
    LET hits == {i \in DOMAIN episodes :
                    episodes[i].episode = parseInt(episode).num}
    IN  IF hits = {} THEN <<>>
        ELSE <<episodes[CHOOSE i \in hits : \A j \in hits : i <= j]>>

\* search.js:490-492: episodes.find(...), <<>> for undefined
find(episodes, season, episode) ==
    LET hits == {i \in DOMAIN episodes :
                    /\ episodes[i].season = parseInt(season).num
                    /\ episodes[i].episode = parseInt(episode).num}
    IN  IF hits = {} THEN <<>>
        ELSE <<episodes[CHOOSE i \in hits : \A j \in hits : i <= j]>>

\* search.js:603-614 with the episode url findEpisodeUrl returned, <<>> for null
episodeResult(f, episodeUrl) ==
    IF episodeUrl = <<>>
    THEN [f EXCEPT !.pc = "threw", !.out = ContentNotFoundError(Str(<<"S", "E">>))]
    ELSE [f EXCEPT !.pc = "returned", !.url = episodeUrl]

\* search.js:598-602 and 617-620, and findEpisodeUrl up to its await: with a
\* cached list it goes on to the end
MatchFound ==
    /\ fc.pc = "matched"
    /\ fc' = IF fc.type = "series" /\ isTruthy(fc.season) /\ isTruthy(fc.episode)
             THEN IF fc.cached # <<>>
                  THEN episodeResult([fc EXCEPT !.episodes = fc.cached],
                                     find(fc.cached[1], fc.season, fc.episode))
                  ELSE [fc EXCEPT !.pc = "fetching"]
             ELSE [fc EXCEPT !.pc = "returned", !.url = <<"match.url">>]
    /\ UNCHANGED <<ts, dc, gv, policy, cache, now, gw, ft, slots, hist, mt>>

\* search.js:441-500: the series page has come, or fetchWithRetry has thrown
\* (response <<>>)
SeriesPageDone(response) ==
    /\ fc.pc = "fetching"
    /\ fc' = IF response = <<>> THEN episodeResult(fc, <<>>)
             ELSE LET episodes == episodesOf(response[1])
                  IN  episodeResult([fc EXCEPT !.episodes = <<episodes>>,
                                               !.cached = <<episodes>>],
                                    find(episodes, fc.season, fc.episode))
    /\ UNCHANGED <<ts, dc, gv, policy, cache, now, gw, ft, slots, hist, mt>>

EpisodeInit ==
    /\ gv = <<>>
    /\ policy = "never"
    /\ cache = EmptyCache
    /\ now = 0
    /\ gw = <<>>
    /\ ft = <<>>
    /\ slots = [activeRequests |-> 0, requestQueue |-> <<>>]
    /\ hist = [on |-> FALSE, bad |-> {}, refreshed |-> FALSE]
    /\ ts = <<>>
    /\ dc = <<>>
    /\ mt = <<>>
    /\ \E type \in {"movie", "series"} :
       \E season \in RequestValues, episode \in RequestValues :
       \E cached \in {<<>>} \cup {<<episodesOf(page)>> : page \in SeriesPages} :
           fc = [pc |-> "matched", type |-> type, season |-> season,
                 episode |-> episode, cached |-> cached, episodes |-> <<>>,
                 url |-> <<>>, out |-> NoThrow]

EpisodeNext ==
    \/ MatchFound
    \/ \E response \in {<<>>} \cup {<<page>> : page \in SeriesPages} :
         SeriesPageDone(response)

SpecEpisode == EpisodeInit /\ [][EpisodeNext]_vars

(***************************************************************************)
(* scraper.js: toStremioStreams, applied to the result variable of a call  *)
(* of getVideoAndSubtitles that ended, or to no result.  A URL built from  *)
(* pieces is the sequence of its pieces.                                   *)
(***************************************************************************)

BaseUrls == {NULL, "https://addon.example"}

\* Buffer.from(str).toString('base64')
base64(str) == <<"base64", str>>

toStremioStreamsPerAudioTrack(result, baseUrl) ==
    [i \in 1..(IF result.present THEN result.audioTracks ELSE 0) |->
        [url |-> <<result.videoUrl>>, Referer |-> <<result.embedOrigin, "/">>,
         Origin |-> result.embedOrigin, subtitles |-> result.subtitles]]

\* toStremioStreams(result, title, baseUrl): the streams of what it returns
toStremioStreams(result, baseUrl) ==
    IF ~result.present \/ ~Truthy(result.videoUrl) THEN <<>>
    ELSE LET embedOrigin == IF Truthy(result.embedOrigin) THEN result.embedOrigin
                            ELSE EMBED_BASE
             referer == <<embedOrigin, "/">>
             streamUrl == IF Truthy(baseUrl)
                          THEN <<baseUrl, "/proxy/m3u8?url=", base64(<<result.videoUrl>>),
                                 "&ref=", base64(referer)>>
                          ELSE <<result.videoUrl>>
         IN  <<[url |-> streamUrl, Referer |-> referer, Origin |-> embedOrigin,
                subtitles |-> result.subtitles]>>

\* the result passed: the one of the call that ended, or none
ToStremioStreams ==
    /\ gv.pc = "done"
    /\ ~ts.called
    /\ \E result \in {gv.result, NoResult}, baseUrl \in BaseUrls :
         ts' = [called |-> TRUE, result |-> result, baseUrl |-> baseUrl,
                streams |-> toStremioStreams(result, baseUrl)]
    /\ UNCHANGED <<gv, policy, cache, now, gw, ft, slots, hist, fc, mt, dc>>

StreamsInit ==
    /\ gv = GvInit
    /\ policy = "auto"
    /\ cache = EmptyCache
    /\ now = 1
    /\ gw = <<>>
    /\ ft = <<>>
    /\ slots = [activeRequests |-> 0, requestQueue |-> <<>>]
    /\ hist = [on |-> FALSE, bad |-> {}, refreshed |-> FALSE]
    /\ fc = <<>>
    /\ mt = <<>>
    /\ dc = <<>>
    /\ ts = [called |-> FALSE, result |-> NoResult, baseUrl |-> NULL, streams |-> <<>>]

StreamsNext == GvNext \/ ToStremioStreams

SpecStreams == StreamsInit /\ [][StreamsNext]_vars

(***************************************************************************)
(* unnamed/part_001 (addon.js with the stream cache): the stream handler,  *)
(* one request at a time.  findContent is taken by its outcome;            *)
(* getVideoAndSubtitles and toStremioStreams are the ones above.           *)
(***************************************************************************)

MaxRequests == 2

\* CACHE_TTL (30 minutes) is the unit of `now` here
CACHE_TTL == 1

\* the id of a request: what split(':') gives first, and the rest
StreamIds ==
    [imdbId : {<<>>, <<"x">>, Repeat("t", 2) \o Repeat("d", 7)}, rest : {":1:2"}]

FindContentOutcomes ==
    {"returned", "ValidationError", "ContentNotFoundError", "TimeoutError",
     "NetworkError", "Error"}

NoEntry == [has |-> FALSE, data |-> <<>>, timestamp |-> 0]

\* part_001:63-64: `cached && Date.now() - cached.timestamp < CACHE_TTL`
streamCacheHit(streamCache, id, t) ==
    /\ streamCache[id].has
    /\ t - streamCache[id].timestamp < CACHE_TTL

\* part_001:85: streamCache.set(cacheKey, { data: streams, timestamp: Date.now() })
streamCacheSet(streamCache, id, streams, t) ==
    [streamCache EXCEPT ![id] = [has |-> TRUE, data |-> streams, timestamp |-> t]]

\* part_001:94-147: what the catch returns; an error stream has no url
caught(name) ==
    IF name = "ValidationError" THEN [kind |-> "empty", streams |-> <<>>]
    ELSE [kind |-> "error", streams |-> <<>>]

\* part_001:43-72: the request, up to a return or the await of findContent
StreamRequest ==
    /\ ts.pc \in {"idle", "done"}
    /\ ts.requests < MaxRequests
    /\ \E id \in StreamIds :
         ts' = IF id.imdbId = <<>> \/ ~isValidImdbId(id.imdbId)
               THEN [ts EXCEPT !.pc = "done", !.id = id, !.requests = @ + 1,
                               !.found = FALSE,
                               !.out = [kind |-> "empty", streams |-> <<>>]]
               ELSE IF streamCacheHit(ts.streamCache, id, now)
               THEN [ts EXCEPT !.pc = "done", !.id = id, !.requests = @ + 1,
                               !.found = FALSE,
                               !.out = [kind |-> "hit",
                                        streams |-> ts.streamCache[id].data]]
               ELSE [ts EXCEPT !.pc = "findContent", !.id = id, !.requests = @ + 1,
                               !.found = FALSE,
                               !.out = [kind |-> "none", streams |-> <<>>]]
    /\ UNCHANGED <<gv, policy, cache, now, gw, ft, slots, hist, fc, mt, dc>>

\* part_001:72-77: findContent has settled; on a content the call of
\* getVideoAndSubtitles goes out
FindContentSettles ==
    /\ ts.pc = "findContent"
    /\ \E outcome \in FindContentOutcomes :
         IF outcome = "returned"
         THEN /\ ts' = [ts EXCEPT !.pc = "getVideoAndSubtitles", !.found = TRUE]
              /\ gv' = GvInit
         ELSE /\ ts' = [ts EXCEPT !.pc = "done", !.out = caught(outcome)]
              /\ gv' = gv
    /\ UNCHANGED <<policy, cache, now, gw, ft, slots, hist, fc, mt, dc>>

\* getVideoAndSubtitles runs
Scraping ==
    /\ ts.pc = "getVideoAndSubtitles"
    /\ GvNext

\* part_001:77-88 and the catch: getVideoAndSubtitles has settled
GetVideoSettles ==
    /\ ts.pc = "getVideoAndSubtitles"
    /\ gv.pc = "done"
    /\ ts' = IF gv.outcome = "returned"
             THEN LET streams == toStremioStreams(gv.result, NULL)
                  IN  [ts EXCEPT !.pc = "done",
                                 !.out = [kind |-> "streams", streams |-> streams],
                                 !.streamCache =
                                     streamCacheSet(ts.streamCache, ts.id, streams, now)]
             ELSE [ts EXCEPT !.pc = "done", !.out = caught(gv.outcome)]
    /\ gv' = GvInit
    /\ UNCHANGED <<policy, cache, now, gw, ft, slots, hist, fc, mt, dc>>

AddonInit ==
    /\ gv = GvInit
    /\ policy = "auto"
    /\ cache = EmptyCache
    /\ now = 1
    /\ gw = <<>>
    /\ ft = <<>>
    /\ slots = [activeRequests |-> 0, requestQueue |-> <<>>]
    /\ hist = [on |-> FALSE, bad |-> {}, refreshed |-> FALSE]
    /\ fc = <<>>
    /\ mt = <<>>
    /\ dc = <<>>
    /\ ts = [pc |-> "idle", id |-> CHOOSE id \in StreamIds : TRUE, requests |-> 0,
             found |-> FALSE, out |-> [kind |-> "none", streams |-> <<>>],
             streamCache |-> [id \in StreamIds |-> NoEntry]]

AddonNext == StreamRequest \/ FindContentSettles \/ Scraping \/ GetVideoSettles \/ Tick

SpecAddon == AddonInit /\ [][AddonNext]_vars

(***************************************************************************)
(* scraper.js: decodeVideoUrl.  A string is the sequence of its code       *)
(* units.                                                                  *)
(***************************************************************************)

\* the magic number of the unmix (scraper.js:361)
magic == 399756995

\* a % b of JavaScript for b > 0: the remainder has the sign of a
rem(a, b) == IF a >= 0 THEN a % b ELSE 0 - ((0 - a) % b)

\* String.fromCharCode(n): the code unit is ToUint16(n)
fromCharCode(n) == n % 65536

\* scraper.js:360-362: the code unit appended for the one at index i
unmixed(charCode, i) == fromCharCode(rem(charCode - rem(magic, i + 5) + 256, 256))

\* scraper.js:358-364
unmix(value) == [i \in 1..Len(value) |-> unmixed(value[i], i - 1)]

(***************************************************************************)
(* decodeVideoUrl applied to parts over digits of base64                   *)
(***************************************************************************)

MaxParts == 2
MaxPartLen == 2

\* the code units of "/", "A", "N" and "a"
Digits == {47, 65, 78, 97}

PartsLists == SeqsUpTo(SeqsUpTo(Digits, MaxPartLen), MaxParts)

\* parts.join('')
RECURSIVE join(_)
join(parts) == IF parts = <<>> THEN <<>> ELSE Head(parts) \o join(Tail(parts))

\* value.split('').reverse().join('')
reverse(value) == [i \in 1..Len(value) |-> value[Len(value) + 1 - i]]

\* the value of a digit of base64 as Buffer.from(value, 'base64') reads it
unbase64(c) ==
    IF c \in 65..90 THEN c - 65
    ELSE IF c \in 97..122 THEN c - 97 + 26
    ELSE IF c \in 48..57 THEN c - 48 + 52
    ELSE IF c \in {43, 45} THEN 62
    ELSE 63

\* Buffer.from(value, 'base64') on digits: three bytes of every four digits,
\* two of three digits left over, one of two, none of one
RECURSIVE bytes(_)
bytes(value) ==
    LET v(i) == unbase64(value[i])
        b1 == v(1) * 4 + (v(2) \div 16)
        b2 == (v(2) % 16) * 16 + (v(3) \div 4)
        b3 == (v(3) % 4) * 64 + v(4)
    IN  IF Len(value) >= 4
        THEN <<b1, b2, b3>> \o bytes(SubSeq(value, 5, Len(value)))
        ELSE IF Len(value) = 3 THEN <<b1, b2>>
        ELSE IF Len(value) = 2 THEN <<b1>>
        ELSE <<>>

\* .toString('latin1'): the code unit of a byte is the byte
latin1(buffer) == [i \in 1..Len(buffer) |-> buffer[i] % 256]

\* the callback of rot13 (scraper.js:332-334) on the code unit of a letter
shifted(c) ==
    LET limit == IF c <= 90 THEN 90 ELSE 122
    IN  IF limit >= c + 13 THEN c + 13 ELSE c + 13 - 26

\* rot13(str): str.replace(/[a-zA-Z]/g, ...)
rot13(str) ==
    [i \in 1..Len(str) |->
        IF str[i] \in (65..90) \cup (97..122) THEN shifted(str[i]) ELSE str[i]]

decodeVideoUrlRotatingFirst(parts) ==
    unmix(latin1(bytes(reverse(rot13(join(parts))))))

\* scraper.js:345-365
decodeVideoUrl(parts) ==
    unmix(rot13(latin1(bytes(reverse(join(parts))))))

DecodeVideoUrl ==
    /\ ~dc.applied
    /\ dc' = [dc EXCEPT !.applied = TRUE, !.out = decodeVideoUrl(dc.parts)]
    /\ UNCHANGED <<gv, policy, cache, now, gw, ft, slots, hist, fc, mt, ts>>

DecodeInit ==
    /\ gv = <<>>
    /\ policy = "never"
    /\ cache = EmptyCache
    /\ now = 0
    /\ gw = <<>>
    /\ ft = <<>>
    /\ slots = [activeRequests |-> 0, requestQueue |-> <<>>]
    /\ hist = [on |-> FALSE, bad |-> {}, refreshed |-> FALSE]
    /\ fc = <<>>
    /\ mt = <<>>
    /\ ts = <<>>
    /\ \E parts \in PartsLists :
           dc = [parts |-> parts, applied |-> FALSE, out |-> <<>>]

SpecDecode == DecodeInit /\ [][DecodeVideoUrl]_vars

(***************************************************************************)
(* The body of the unmix loop applied to one code unit at one index        *)
(***************************************************************************)

MaxIndex == 256

Unmix ==
    /\ ~dc.applied
    /\ dc' = [dc EXCEPT !.applied = TRUE, !.out = unmixed(dc.charCode, dc.i)]
    /\ UNCHANGED <<gv, policy, cache, now, gw, ft, slots, hist, fc, mt, ts>>

UnmixInit ==
    /\ gv = <<>>
    /\ policy = "never"
    /\ cache = EmptyCache
    /\ now = 0
    /\ gw = <<>>
    /\ ft = <<>>
    /\ slots = [activeRequests |-> 0, requestQueue |-> <<>>]
    /\ hist = [on |-> FALSE, bad |-> {}, refreshed |-> FALSE]
    /\ fc = <<>>
    /\ mt = <<>>
    /\ ts = <<>>
    /\ \E charCode \in 0..255, i \in 0..MaxIndex :
           dc = [charCode |-> charCode, i |-> i, applied |-> FALSE, out |-> 0]

SpecUnmix == UnmixInit /\ [][Unmix]_vars

(***************************************************************************)
(* scraper.js: one attempt of httpGet or tryFetchWithProxy and its timer.  *)
(* Time is counted in ticks; the attempts of a caller follow one another   *)
(* without the backoff between them.                                       *)
(***************************************************************************)

NAttempt == 2
MaxElapsed == 4

\* CONFIG.timeout, in ticks
timeout == 2

\* clearTimeout(timeoutId)
clearTimeout(timer) == IF timer = "armed" THEN "cleared" ELSE timer

IdleAttempt ==
    [pc |-> "idle", attempt |-> 0, timer |-> "none", elapsed |-> 0, last |-> "none"]

\* scraper.js:98-103 and 181-185: setTimeout(() => controller.abort(),
\* CONFIG.timeout), then fetch
AttemptStarts(c) ==
    /\ ft[c].pc \in {"idle", "failed"}
    /\ ft[c].attempt < maxRetries
    /\ ft' = [ft EXCEPT ![c] = [pc |-> "fetch", attempt |-> @.attempt + 1,
                                timer |-> "armed", elapsed |-> 0, last |-> @.last]]
    /\ UNCHANGED <<gv, policy, cache, now, gw, slots, hist, fc, mt, ts, dc>>

\* a tick passes for every attempt in flight; a timer that is armed fires
\* before time passes its delay
AttemptTick ==
    /\ \E c \in DOMAIN ft : ft[c].pc \in {"fetch", "body"}
    /\ \A c \in DOMAIN ft :
         /\ ft[c].pc \in {"fetch", "body"} => ft[c].elapsed < MaxElapsed
         /\ ft[c].timer = "armed" => ft[c].elapsed < timeout
    /\ ft' = [c \in DOMAIN ft |->
                 IF ft[c].pc \in {"fetch", "body"}
                 THEN [ft[c] EXCEPT !.elapsed = @ + 1]
                 ELSE ft[c]]
    /\ UNCHANGED <<gv, policy, cache, now, gw, slots, hist, fc, mt, ts, dc>>

\* the timer fires: controller.abort() rejects what the attempt awaits with an
\* AbortError, and the attempt has failed (scraper.js:99, 140, 182, 229)
TimerFires(c) ==
    /\ ft[c].timer = "armed"
    /\ ft[c].elapsed >= timeout
    /\ ft' = [ft EXCEPT ![c].pc = "failed", ![c].timer = "fired",
                        ![c].last = "AbortError"]
    /\ UNCHANGED <<gv, policy, cache, now, gw, slots, hist, fc, mt, ts, dc>>

\* fetch resolves with the response: clearTimeout, then the status
\* (scraper.js:103-121, 185-204)
HeadersArrive(c) ==
    /\ ft[c].pc = "fetch"
    /\ \E status \in {200, 403, 500} :
         ft' = [ft EXCEPT ![c].timer = clearTimeout(@),
                          ![c].pc = IF status = 200 THEN "body"
                                    ELSE IF status = 403 THEN "blocked"
                                    ELSE "failed",
                          ![c].last = IF status = 500 THEN "NetworkError" ELSE @]
    /\ UNCHANGED <<gv, policy, cache, now, gw, slots, hist, fc, mt, ts, dc>>

\* fetch rejects: clearTimeout in the catch (scraper.js:134-137, 221-224)
FetchRejects(c) ==
    /\ ft[c].pc = "fetch"
    /\ ft' = [ft EXCEPT ![c].timer = clearTimeout(@), ![c].pc = "failed",
                        ![c].last = "NetworkError"]
    /\ UNCHANGED <<gv, policy, cache, now, gw, slots, hist, fc, mt, ts, dc>>

\* response.text() resolves or rejects (scraper.js:123-133, 206-219)
BodyEnds(c) ==
    /\ ft[c].pc = "body"
    /\ \E read \in BOOLEAN :
         ft' = [ft EXCEPT ![c].timer = clearTimeout(@),
                          ![c].pc = IF read THEN "returned" ELSE "failed",
                          ![c].last = IF read THEN @ ELSE "NetworkError"]
    /\ UNCHANGED <<gv, policy, cache, now, gw, slots, hist, fc, mt, ts, dc>>

AttemptInit ==
    /\ gv = <<>>
    /\ policy = "never"
    /\ cache = EmptyCache
    /\ now = 0
    /\ gw = <<>>
    /\ ft = [c \in 1..NAttempt |-> IdleAttempt]
    /\ slots = [activeRequests |-> 0, requestQueue |-> <<>>]
    /\ hist = [on |-> FALSE, bad |-> {}, refreshed |-> FALSE]
    /\ fc = <<>>
    /\ mt = <<>>
    /\ ts = <<>>
    /\ dc = <<>>

AttemptNext ==
    \/ AttemptTick
    \/ \E c \in DOMAIN ft :
         \/ AttemptStarts(c)
         \/ TimerFires(c)
         \/ HeadersArrive(c)
         \/ FetchRejects(c)
         \/ BodyEnds(c)

SpecAttempt == AttemptInit /\ [][AttemptNext]_vars

(***************************************************************************)
(* Properties of getVideoAndSubtitles (SpecScrape)                         *)
(***************************************************************************)

\* C1: once the primary frame has been scraped, getVideoAndSubtitles either
\* returns a result whose videoUrl is a non-empty string or throws
\* ScrapingError, whatever the primary and the alternate scrapes gave (a video
\* URL, none, a throw), also when subtitles or audio tracks were collected.
C1_NeverReturnsWithoutVideoUrl ==
    gv.pc = "done" /\ gv.primary # "none" =>
        \/ gv.outcome = "returned" /\ gv.result.present /\ Truthy(gv.result.videoUrl)
        \/ gv.outcome = "ScrapingError"

\* tracks were collected, no frame gave a video URL, ScrapingError is thrown
C1_Witness ==
    /\ gv.pc = "done"
    /\ gv.outcome = "ScrapingError"
    /\ gv.result.present
    /\ gv.result.subtitles > 0
    /\ Len(gv.scraped) > 0

\* the positions of the alternates not marked active, in page order
NonActive(alts) ==
    SelectSeq([i \in 1..Len(alts) |-> i], LAMBDA i : ~alts[i].active)

\* the alternates were scraped in page order, the active ones never, up to
\* the first that yielded a video URL, whose name is the source of the result
ScrapedInPageOrder(g) ==
    LET na == NonActive(g.altSources)
        n == Len(g.scraped)
    IN  /\ n <= Len(na)
        /\ \A k \in 1..n : g.scraped[k].alt = na[k]
        /\ \A k \in 1..(n - 1) : ~g.scraped[k].yielded
        /\ IF n > 0 /\ g.scraped[n].yielded
           THEN /\ g.outcome = "returned"
                /\ g.result.source = g.altSources[g.scraped[n].alt].name
           ELSE n = Len(na)

\* C2 as stated: whenever the primary frame gave no video URL, the non-active
\* alternates are scraped in page order up to the first that yields.
C2_Original ==
    gv.pc = "done" /\ gv.primary \in {"threw", "no-video"} => ScrapedInPageOrder(gv)

\* C2: when the primary frame gave no video URL and the iframe's src matches
\* embed/<id>, the non-active alternates are scraped in page order, never an
\* active one, up to the first that yields a video URL, and the result's
\* source is that alternate's name; when the src does not match, no alternate
\* is scraped and ScrapingError is thrown.
C2_AlternatesInPageOrder ==
    gv.pc = "done" /\ gv.primary \in {"threw", "no-video"} =>
        IF gv.iframeSrc.embedId # NULL
        THEN ScrapedInPageOrder(gv)
        ELSE gv.scraped = <<>> /\ gv.outcome = "ScrapingError"

\* an active alternate was passed over, one alternate failed, a later one gave
\* the video
C2_Witness ==
    /\ gv.pc = "done"
    /\ gv.outcome = "returned"
    /\ gv.primary = "no-video"
    /\ Len(gv.scraped) = 2
    /\ gv.scraped[2].yielded
    /\ \E j \in 1..Len(gv.altSources) :
         gv.altSources[j].active /\ j < gv.scraped[2].alt
    /\ gv.result.source = gv.altSources[gv.scraped[2].alt].name

\* the alternates marked active, in page order
activeAlternates(alts) == SelectSeq(alts, LAMBDA a : a.active)

\* the call has ended after a primary frame that gave a video URL
PrimaryResult ==
    gv.pc = "done" /\ gv.primary = "video" =>
        /\ gv.scraped = <<>>
        /\ gv.alt = 0
        /\ gv.outcome = "returned"
        /\ gv.usedIframeSrc = gv.iframeSrc
        /\ gv.result.embedOrigin = gv.iframeSrc.origin
        /\ gv.result.source =
              IF activeAlternates(gv.altSources) = <<>> THEN NULL
              ELSE activeAlternates(gv.altSources)[1].name

\* the step that scrapes the primary frame hands on its video URL
PrimaryStep ==
    gv.pc = "primary" /\ gv'.primary = "video" =>
        /\ gv'.pc = "done"
        /\ \E fr \in FramesAt(gv.iframeSrc) :
             /\ ~fr.thrown
             /\ Truthy(scrapeIframe(fr).videoUrl)
             /\ gv'.result.videoUrl = scrapeIframe(fr).videoUrl
             /\ gv'.result.subtitles = fr.subs

\* C34: when the primary frame gives a video URL, getVideoAndSubtitles scrapes
\* no alternate frame; the videoUrl and the embedOrigin it returns are those
\* of the primary frame, and source is the name of the alternate marked
\* active if there is one and is left unset otherwise.
C34_PrimaryWins ==
    /\ []PrimaryResult
    /\ [][PrimaryStep]_vars

\* the primary frame gave the video next to an alternate that is not active
\* and, after it, one that is, whose name is the source
C34_Witness ==
    /\ gv.pc = "done"
    /\ gv.primary = "video"
    /\ Len(gv.altSources) >= 2
    /\ ~gv.altSources[1].active
    /\ gv.altSources[2].active
    /\ gv.altSources[1].name # gv.altSources[2].name
    /\ gv.result.source = gv.altSources[2].name

(***************************************************************************)
(* Properties of the proxy pool (SpecPool)                                 *)
(***************************************************************************)

\* C7 as stated: a call of getWorkingProxy made after markProxyBad(P) removed
\* P from the known-good set is answered with P's address only if a test of
\* that address has succeeded since (hist.bad holds the addresses marked bad
\* with no successful test since).
C7_Original ==
    \A c \in DOMAIN gw :
        gw[c].pc = "returned" /\ gw[c].fromCache => ~gw[c].stale

\* C8: with a known-good proxy and a policy other than 'never', the call of
\* getWorkingProxy returns the first known-good entry at once, sends no test,
\* refreshes nothing, and leaves the candidate list, its timestamp and the
\* known-good set as they were.
C8_CacheHitLeavesPoolUnchanged ==
    [][\A c \in DOMAIN gw :
          (/\ gw[c].pc = "idle"
           /\ gw'[c].pc # "idle"
           /\ policy # "never"
           /\ Len(cache.workingProxies) > 0)
          => /\ gw'[c].pc = "returned"
             /\ gw'[c].ret = cache.workingProxies[1]
             /\ gw'[c].toTest = <<>>
             /\ cache' = cache]_vars

\* a call was answered from the known-good set although the candidate list
\* had expired
C8_Witness ==
    \E c \in DOMAIN gw :
        /\ gw[c].pc = "returned"
        /\ gw[c].fromCache
        /\ Len(cache.workingProxies) > 0
        /\ gw[c].ret = cache.workingProxies[1]
        /\ Len(cache.proxies) > 0
        /\ ~listFresh(cache, now)

\* C9: a refresh of the candidate list (the answer of the feeds, with or
\* without proxies, and the reset of the timestamp in rounds 2..5) leaves the
\* known-good set as it was.
C9_RefreshKeepsKnownGood ==
    [][(\/ \E c \in DOMAIN gw : gw[c].pc = "fetching" /\ gw'[c].pc # "fetching"
        \/ cache'.proxies # cache.proxies
        \/ cache'.timestamp # cache.timestamp)
       => cache'.workingProxies = cache.workingProxies]_vars

\* the feeds answered a call in a forced-refresh round while the known-good
\* set held a proxy, and it still holds one
C9_Witness ==
    /\ hist.refreshed
    /\ Len(cache.workingProxies) > 0
    /\ \E c \in DOMAIN gw : gw[c].pc = "testing" /\ gw[c].attempt >= 2

\* the step promotes a proxy: the known-good set grows by one at its end
Promotes(c) ==
    /\ gw[c].pc = "testing"
    /\ gw'[c].pc = "returned"
    /\ cache'.workingProxies = Append(cache.workingProxies, gw'[c].ret)

\* the test response of the i-th proxy of c's batch: HTTP 200, none of the
\* markers `avoided`, longer than 1000 characters
PassedTest(c, i, avoided) ==
    /\ gw[c].results[i].done
    /\ gw[c].results[i].resp.kind = "resp"
    /\ gw[c].results[i].resp.status = 200
    /\ gw[c].results[i].resp.marker \notin avoided
    /\ gw[c].results[i].resp.len > 1000

DirectAttemptEnds(c) ==
    ft[c].pc = "wait" /\ ft[c].phase = "direct" /\ ft'[c].pc # "wait"

\* C3 as stated: a direct attempt to a target URL that receives 403, or a
\* body with a challenge marker, ends the direct phase at once: no backoff,
\* no further direct attempt, nothing recorded as a failure, and the proxy
\* phase next when proxies are enabled.
C3_Original ==
    [][\A c \in DOMAIN ft :
          DirectAttemptEnds(c) /\ ft'[c].sig \in {"403", "challenge", "challenge-not-ok"}
          => /\ ft'[c].pc # "backoff"
             /\ ft'[c].lastError = ft[c].lastError
             /\ isProxyEnabled => ft'[c].phase = "proxy"]_vars

\* C4: a call is in its proxy phase, or has used a proxy, only if its URL is
\* of the protected domain and either one of its direct attempts received 403
\* or a challenge page, or the policy is 'always'.
C4_ProxyOnlyWhenBlockedOrAlways ==
    \A c \in DOMAIN ft :
        ft[c].phase = "proxy" \/ ft[c].used # <<>> =>
            /\ isHdfilmcehennemiUrl(ft[c].url)
            /\ ft[c].blocked \/ policy = "always"

\* a request is on its way through a proxy after a blocked direct attempt
C4_Witness ==
    \E c \in DOMAIN ft :
        /\ ft[c].phase = "proxy"
        /\ ft[c].pc = "wait"
        /\ ft[c].blocked
        /\ policy = "auto"
        /\ ft[c].lastError # NoError

NoDuplicates(seq) == \A i, j \in 1..Len(seq) : i # j => seq[i] # seq[j]

\* C5 as stated: no address is used twice, and the proxy phase ends only with
\* a body or after 5 distinct proxies have been tried.
C5_Original ==
    \A c \in DOMAIN ft :
        /\ NoDuplicates(ft[c].used)
        /\ ft[c].pc = "done" /\ ft[c].phase = "proxy" =>
               \/ ft[c].result = "text"
               \/ Cardinality(ft[c].tried) = maxProxyAttempts

\* C5: within the proxy phase of one call no address is used twice; the phase
\* makes at most 5 iterations, each of which asks for a candidate, and an
\* iteration without a candidate or with one already tried is spent as well,
\* so at most 5 distinct proxies are tried; the call returns as soon as a
\* proxy gives a non-empty body and throws after the 5th iteration otherwise.
C5_ProxyPhaseBounded ==
    \A c \in DOMAIN ft :
        /\ NoDuplicates(ft[c].used)
        /\ Range(ft[c].used) = ft[c].tried
        /\ Len(ft[c].used) <= ft[c].proxyAttempt
        /\ ft[c].proxyAttempt <= maxProxyAttempts
        /\ ft[c].sig = "proxy-body" => ft[c].pc = "done" /\ ft[c].result = "text"
        /\ ft[c].pc = "done" /\ ft[c].phase = "proxy" =>
               \/ ft[c].result = "text" /\ ft[c].sig = "proxy-body"
               \/ ft[c].result = "thrown" /\ ft[c].proxyAttempt = maxProxyAttempts

\* the first proxy failed, the second one gave the body
C5_Witness ==
    \E c \in DOMAIN ft :
        /\ ft[c].pc = "done"
        /\ ft[c].phase = "proxy"
        /\ ft[c].result = "text"
        /\ Len(ft[c].used) = 2

\* C6: when the attempts through proxy P end without a body, P is out of the
\* known-good set at the next call of getWorkingProxy of that httpGet, and the
\* answer of that call, if it comes from the known-good set, is not P.
C6_FailedProxyEvictedBeforeNext ==
    [][\A c \in DOMAIN ft :
          (/\ ft[c].phase = "proxy"
           /\ ft[c].pc = "wait"
           /\ ft'[c].pc \in {"getProxy", "done"}
           /\ ft'[c].result # "text")
          => /\ ft[c].proxy.address \notin Addresses(cache'.workingProxies)
             /\ gw'[c].pc = "returned" /\ gw'[c].fromCache
                  => gw'[c].ret.address # ft[c].proxy.address]_vars

\* after a failed proxy the next candidate came from the known-good set, and
\* it is another one
C6_Witness ==
    \E c \in DOMAIN ft :
        /\ ft[c].pc = "getProxy"
        /\ ft[c].proxyAttempt >= 2
        /\ ft[c].used # <<>>
        /\ gw[c].pc = "returned"
        /\ gw[c].fromCache
        /\ gw[c].ret.address \notin ft[c].tried

\* C23 as stated: when httpGet fails after its phases are exhausted it throws
\* the most specific error met during the call: TimeoutError if an attempt
\* timed out, otherwise the NetworkError with the status an attempt got, and
\* the generic error only when there was none.  Here: a call in which a direct
\* attempt timed out throws nothing but a TimeoutError.
C23_Original ==
    \A c \in DOMAIN ft :
        ft[c].result = "thrown" /\ ft[c].timedOut
            => ft[c].thrown.name = "TimeoutError"

\* C24: a call of httpGet ends by returning a response body or by throwing a
\* NetworkError or a TimeoutError, whatever its attempts met: a transport
\* exception, an abort, a non-2xx status, a block with proxies disabled, no
\* proxy available.
C24_EndsTyped ==
    \A c \in DOMAIN ft :
        ft[c].pc = "done" =>
            \/ ft[c].result = "text" /\ ft[c].thrown = NoError
            \/ /\ ft[c].result = "thrown"
               /\ ft[c].thrown.name \in {"NetworkError", "TimeoutError"}

\* the third direct attempt met a transport exception and it was thrown as a
\* NetworkError
C24_Witness ==
    \E c \in DOMAIN ft :
        /\ ft[c].pc = "done"
        /\ ft[c].result = "thrown"
        /\ ft[c].attempt = maxRetries
        /\ ft[c].phase = "direct"
        /\ ft[c].thrown = [name |-> "NetworkError", status |-> 0]
        /\ ft[c].sig = "other"
        /\ ~ft[c].blocked

\* C25 as stated: every attempt of httpGet and tryFetchWithProxy is bounded by
\* the per-attempt timeout for its whole duration, the reading of the body
\* included: no attempt is in flight longer than the timeout.
C25_Original ==
    \A c \in DOMAIN ft :
        ft[c].pc \in {"fetch", "body"} => ft[c].elapsed <= timeout


\* the direct phase as it stands
DirectPhase(c) ==
    ft[c].phase = "direct" =>
        /\ ft[c].attempt <= maxRetries
        /\ ft[c].pc = "backoff" =>
             /\ ft[c].attempt < maxRetries
             /\ ft[c].attempt = 1 => ft[c].delay = 1000
             /\ ft[c].attempt = 2 => ft[c].delay = 2000

\* a step of the direct phase: a success ends the call, and the next attempt
\* comes only out of the backoff
DirectStep(c) ==
    /\ ft[c].pc = "done" => ft'[c] = ft[c]
    /\ ft[c].phase = "direct" /\ ft'[c].phase = "direct"
       /\ ft[c].attempt >= 1 /\ ft'[c].attempt # ft[c].attempt =>
         /\ ft[c].pc = "backoff"
         /\ ft'[c].attempt = ft[c].attempt + 1
    /\ ft[c].phase = "direct" /\ ft[c].pc = "wait" /\ ft[c].attempt = maxRetries =>
         ft'[c].pc # "backoff"

\* C33: the direct phase of httpGet makes at most 3 attempts and stops at the
\* first success; after failed attempt k < 3 it waits 1000 ms * 2^(k-1), that
\* is 1000 ms and then 2000 ms, before attempt k+1, and it does not wait after
\* the last failed attempt.
C33_DirectBackoff ==
    /\ [](\A c \in DOMAIN ft : DirectPhase(c))
    /\ [][\A c \in DOMAIN ft : DirectStep(c)]_vars

\* the second direct attempt has failed and the call sleeps 2000 ms
C33_Witness ==
    \E c \in DOMAIN ft :
        /\ ft[c].phase = "direct"
        /\ ft[c].pc = "backoff"
        /\ ft[c].attempt = 2
        /\ ft[c].delay = 2000

(***************************************************************************)
(* Properties of the limiter (SpecLimiter, SpecLimiterFair)                *)
(***************************************************************************)

\* the callers that hold a slot: admitted, not yet released
Holders == {c \in DOMAIN ft : ft[c].pc \in {"wait", "backoff"}}

\* C11: the number of slots admitted and not yet released, which is what
\* activeRequests counts, never exceeds maxConcurrent, and callers wait in the
\* queue only while activeRequests equals maxConcurrent.
C11_AtMostMaxConcurrent ==
    /\ slots.activeRequests = Cardinality(Holders)
    /\ slots.activeRequests <= maxConcurrent
    /\ Range(slots.requestQueue) = {c \in DOMAIN ft : ft[c].pc = "queued"}
    /\ Len(slots.requestQueue) > 0 => slots.activeRequests = maxConcurrent

\* all slots are taken and two callers wait
C11_Witness ==
    /\ slots.activeRequests = maxConcurrent
    /\ Cardinality(Holders) = maxConcurrent
    /\ Len(slots.requestQueue) = 2

\* C12: a caller that queued is admitted only when every caller that queued
\* before it has been admitted, and no caller gets a slot on arrival while a
\* caller is queued.
C12_AdmittedInArrivalOrder ==
    [][\A c \in DOMAIN ft :
          /\ ft[c].pc = "queued" /\ ft'[c].pc = "wait" => c = Head(hist.arrivals)
          /\ ft[c].pc \in {"idle", "backoff"} /\ ft'[c].pc = "wait"
               => hist.arrivals = <<>>]_vars

\* two callers wait in their order of arrival while a holder of a slot sleeps
\* before its next attempt
C12_Witness ==
    /\ Len(hist.arrivals) = 2
    /\ hist.arrivals = slots.requestQueue
    /\ \E c \in DOMAIN ft : ft[c].pc = "backoff"

\* C13: with every request answered and every sleep ended, a caller that is
\* queued is admitted in the end.
C13_QueuedEventuallyAdmitted ==
    \A c \in 1..NLim : (ft[c].pc = "queued") ~> (ft[c].pc = "wait")

\* a caller waits behind another one
C13_Witness ==
    \E c \in DOMAIN ft :
        /\ ft[c].pc = "queued"
        /\ Len(slots.requestQueue) = 2
        /\ slots.requestQueue[2] = c

(***************************************************************************)
(* Properties of the requests of the process (SpecTraffic)                 *)
(***************************************************************************)

\* C14 as stated: the requests in flight, those of the scraper, the feed
\* downloads and the proxy tests together, are at most maxConcurrent.
C14_Original == InFlight <= maxConcurrent

\* C14: the requests of httpGet and tryFetchWithProxy in flight are at most
\* maxConcurrent, each of them under a slot of the limiter; the feed downloads
\* and the proxy tests of proxy.js take no slot and come on top.
C14_ScraperRequestsLimited ==
    /\ scraperInFlight <= slots.activeRequests
    /\ slots.activeRequests <= maxConcurrent

\* the limiter is full, a caller waits, and the feed downloads are out as well
C14_Witness ==
    /\ scraperInFlight = maxConcurrent
    /\ Len(slots.requestQueue) > 0
    /\ feedsInFlight = feedSources
    /\ InFlight > maxConcurrent

(***************************************************************************)
(* Properties of toStremioStreams (SpecStreams)                            *)
(***************************************************************************)

\* no piece of the URL is missing or empty
NonEmptyUrl(url) ==
    /\ Len(url) > 0
    /\ \A i \in DOMAIN url : url[i] # NULL /\ url[i] # ""

\* C21: toStremioStreams returns an empty stream list when the result is
\* absent or has no videoUrl, and exactly one stream with a non-empty url when
\* videoUrl is present, however many audio tracks or subtitles the result
\* holds.
C21_OneStreamOrNone ==
    ts.called =>
        IF ~ts.result.present \/ ~Truthy(ts.result.videoUrl)
        THEN ts.streams = <<>>
        ELSE Len(ts.streams) = 1 /\ NonEmptyUrl(ts.streams[1].url)

\* a result with a video URL, an audio track and a subtitle gave one stream
C21_Witness ==
    /\ ts.called
    /\ Truthy(ts.result.videoUrl)
    /\ ts.result.audioTracks > 0
    /\ ts.result.subtitles > 0
    /\ Truthy(ts.baseUrl)
    /\ Len(ts.streams) = 1

\* the origin of the frame URL that produced the video URL of the call
producingOrigin ==
    IF gv.primary = "video" THEN gv.iframeSrc.origin
    ELSE altIframeSrc(gv.iframeSrc.embedId, gv.altSources[gv.alt]).origin

\* C22: for a successful extraction the Referer and Origin of the stream are
\* derived from the origin of the frame URL that produced the video URL, the
\* primary frame's or the alternate's; the default embed origin is used only
\* when the result carries no embedOrigin.
C22_RefererOfProducingFrame ==
    (ts.called /\ ts.streams # <<>>) =>
        /\ gv.outcome = "returned" =>
               /\ ts.streams[1].Origin = producingOrigin
               /\ ts.streams[1].Referer = <<producingOrigin, "/">>
        /\ Truthy(ts.result.embedOrigin) => ts.streams[1].Origin = ts.result.embedOrigin

\* the primary frame on the main site produced the video URL
C22_Witness ==
    /\ ts.called
    /\ gv.outcome = "returned"
    /\ gv.primary = "video"
    /\ gv.iframeSrc.origin = BASE_URL
    /\ ts.streams # <<>>
    /\ ts.streams[1].Referer = <<BASE_URL, "/">>

(***************************************************************************)
(* Properties of findContent (SpecFind)                                    *)
(***************************************************************************)

\* the strings "tt" followed by exactly 7 or 8 digits
WellFormedIds == {Str(Repeat("t", 2) \o Repeat("d", k)) : k \in {7, 8}}

\* C15: called with an identifier that is not a string "tt" followed by
\* exactly 7 or 8 digits, or with a type other than movie and series,
\* findContent throws ValidationError before any network request is issued and
\* before any cache is read or written.
C15_ValidationBeforeIO ==
    (/\ fc.pc # "called"
     /\ fc.imdbId \notin WellFormedIds \/ fc.type \notin {"movie", "series"})
    => /\ fc.pc = "threw"
       /\ fc.out.error = "ValidationError"
       /\ fc.reads = 0
       /\ fc.writes = 0
       /\ fc.requests = 0

\* "tt", seven digits and one more character, with the search of this
\* identifier in the cache: thrown, and the cache was not read
C15_Witness ==
    /\ fc.pc = "threw"
    /\ fc.imdbId = Str(Repeat("t", 2) \o Repeat("d", 7) \o <<"x">>)
    /\ fc.type = "movie"
    /\ fc.store # {}
    /\ fc.out = ValidationError("imdbId")
    /\ fc.reads = 0

\* C16: for a valid identifier and type, when no search yields a match (the
\* identifier search returns no result, and the metadata is missing or no
\* candidate of a title search clears the threshold), findContent throws
\* ContentNotFoundError whose query is the identifier passed in; it returns
\* neither null nor a match.
C16_NoMatchThrowsNotFound ==
    (/\ fc.pc \in {"returned", "threw"}
     /\ fc.reads > 0
     /\ ~fc.yielded)
    => /\ fc.pc = "threw"
       /\ fc.out.error = "ContentNotFoundError"
       /\ fc.out.query = fc.imdbId
       /\ fc.match = <<>>

\* thrown after the title searches: the last one returned results and none of
\* them cleared the threshold
C16_Witness ==
    /\ fc.pc = "threw"
    /\ fc.out.error = "ContentNotFoundError"
    /\ fc.out.query = fc.imdbId
    /\ fc.imdbId \in WellFormedIds
    /\ fc.meta # <<>>
    /\ fc.queries = <<>>
    /\ fc.data # <<>>
    /\ Len(fc.data[1]) > 0
    /\ ~fc.yielded
    /\ fc.requests >= 3

\* a positive integer below 1000: a number, or a string of digits only
PositiveIntegerBelow1000(value) ==
    \/ value.typeof = "number" /\ value.n > 0 /\ value.n < 1000
    \/ /\ value.typeof = "string"
       /\ value.s # <<>>
       /\ leadingDigits(value.s) = value.s
       /\ decimal(value.s) > 0
       /\ decimal(value.s) < 1000

\* C17 as stated: findContent throws ValidationError whenever a season or
\* episode is provided that is not a positive integer below 1000, whatever the
\* value and whether the type is movie or series.
C17_Original ==
    (/\ fc.pc # "called"
     /\ fc.imdbId \in WellFormedIds
     /\ fc.type \in {"movie", "series"}
     /\ \E value \in {fc.season, fc.episode} :
            value # Undefined /\ ~PositiveIntegerBelow1000(value))
    => /\ fc.pc = "threw"
       /\ fc.out.error = "ValidationError"

(***************************************************************************)
(* Properties of the matcher (SpecSimilarity, SpecBestMatch)               *)
(***************************************************************************)

\* the total score of result i of the call
scoreOf(i) == score(mt.results[i], mt.targetTitle, mt.targetYear)

\* C18: findBestMatch returns a candidate only if its total score is at least
\* 0.4 and no other candidate of the list has a strictly higher total score;
\* when every candidate scores below 0.4 it returns null.
C18_BestAboveThreshold ==
    mt.returned =>
        /\ mt.bestMatch # 0 =>
               /\ mt.bestMatch \in DOMAIN mt.results
               /\ scoreOf(mt.bestMatch) >= threshold
               /\ \A j \in DOMAIN mt.results : scoreOf(j) <= scoreOf(mt.bestMatch)
        /\ (\A j \in DOMAIN mt.results : scoreOf(j) < threshold) => mt.bestMatch = 0

\* the second of three results is returned: the first clears the threshold
\* with a lower score and the third is below the threshold
C18_Witness ==
    /\ mt.returned
    /\ Len(mt.results) = 3
    /\ mt.bestMatch = 2
    /\ scoreOf(1) >= threshold
    /\ scoreOf(1) < scoreOf(2)
    /\ scoreOf(3) < threshold

\* C19: calculateSimilarity(A, B) is 1 whenever the normalized titles are
\* equal, and for every pair of titles its value lies in [0, 1].
C19_SimilarityInUnitInterval ==
    "AB" \in mt.returned =>
        /\ mt.AB >= 0
        /\ mt.AB <= ScoreScale
        /\ normalizeTitle(mt.A) = normalizeTitle(mt.B) => mt.AB = ScoreScale

\* two titles that differ, are equal once normalized, and scored 1; and two
\* titles of two words each that share one word and scored one half
C19_Witness ==
    /\ "AB" \in mt.returned
    /\ \/ /\ mt.A = <<"AB", "-", "c">>
          /\ mt.B = <<" ", "ab", " ", "c">>
          /\ mt.AB = ScoreScale
       \/ /\ mt.A = <<"ab", " ", "c", "c">>
          /\ mt.B = <<"ab", "-", "c", "ab">>
          /\ mt.AB = ScoreScale \div 2

\* C20 as stated: calculateSimilarity(A, B) = calculateSimilarity(B, A) for
\* all titles A and B.
C20_Original ==
    mt.returned = {"AB", "BA"} => mt.AB = mt.BA

\* the words of ws that w contains or is contained in
matching(w, ws) ==
    {j \in DOMAIN ws : includes(ws[j], w) \/ includes(w, ws[j])}

\* no word of either title matches more than one word of the other
OneToOne(A, B) ==
    LET words1 == words(normalizeTitle(A))
        words2 == words(normalizeTitle(B))
    IN  /\ \A i \in DOMAIN words1 : Cardinality(matching(words1[i], words2)) <= 1
        /\ \A j \in DOMAIN words2 : Cardinality(matching(words2[j], words1)) <= 1

\* C20: calculateSimilarity(A, B) = calculateSimilarity(B, A) whenever no word
\* of either normalized title contains or is contained in more than one word
\* of the other.
C20_SymmetricWhenOneToOne ==
    (mt.returned = {"AB", "BA"} /\ OneToOne(mt.A, mt.B)) => mt.AB = mt.BA

\* "ab cc" against "AB": one word of two matches, one half in both orders
C20_Witness ==
    /\ mt.returned = {"AB", "BA"}
    /\ mt.A = <<"ab", " ", "c", "c">>
    /\ mt.B = <<"AB">>
    /\ OneToOne(mt.A, mt.B)
    /\ mt.AB = ScoreScale \div 2
    /\ mt.BA = ScoreScale \div 2

discovering(c) == gw[c].pc \in {"fetching", "testing", "sleeping"}

passed(c) == {i \in 1..Len(gw[c].toTest) : gw[c].results[i].works}

\* the rounds of a discovery are numbered 1..5, one after the other
RoundsBounded ==
    \A c \in DOMAIN gw :
        /\ gw[c].attempt \in 0..maxRounds
        /\ discovering(c) => gw[c].attempt >= 1

\* what one step of a discovery may do
RoundStep(c) ==
    /\ discovering(c) => gw'[c].attempt \in {gw[c].attempt, gw[c].attempt + 1}
    /\ discovering(c) /\ gw'[c].attempt = gw[c].attempt + 1 =>
         /\ gw[c].pc = "sleeping"
         /\ gw[c].attempt < maxRounds
    /\ gw[c].pc = "testing" /\ gw'[c].pc = "returned" =>
         IF passed(c) # {}
         THEN /\ gw'[c].ret = gw[c].toTest[CHOOSE i \in passed(c) :
                                               \A j \in passed(c) : i <= j]
              /\ gw'[c].ret.address \in Addresses(cache'.workingProxies)
         ELSE /\ gw'[c].ret = NoProxy
              /\ gw[c].attempt = maxRounds
    /\ gw[c].pc = "testing" /\ gw'[c].pc = "sleeping" => passed(c) = {}
    /\ gw[c].pc \in {"fetching", "sleeping"} /\ gw'[c].pc = "returned" =>
         /\ gw'[c].ret = NoProxy
         /\ gw'[c].attempt = maxRounds
         /\ Len(cache'.proxies) = 0

\* C26: getWorkingProxy always terminates; with an empty known-good set it
\* runs at most 5 rounds, returns the proxy it promoted in the first round in
\* which a candidate passes, and returns none only in round 5, when no
\* candidate passed or none was available.
C26_TerminatesWithinFiveRounds ==
    /\ []RoundsBounded
    /\ [][\A c \in DOMAIN gw : RoundStep(c)]_vars
    /\ \A c \in 1..NPoolCallers : discovering(c) ~> gw[c].pc = "returned"

\* a discovery has given up in round 5 after a batch without a pass
C26_Witness ==
    \E c \in DOMAIN gw :
        /\ gw[c].pc = "returned"
        /\ ~gw[c].fromCache
        /\ gw[c].attempt = maxRounds
        /\ gw[c].ret = NoProxy
        /\ Len(gw[c].toTest) > 0

\* getWorkingProxy answers caller c from the known-good set in this step
servedKnownGood(c) ==
    /\ gw[c].pc = "idle"
    /\ gw'[c].pc = "returned"
    /\ gw'[c].fromCache

\* C27 as stated: the known-good set has a TTL of its own: a proxy promoted
\* to known-good is no longer returned without a new test once that TTL has
\* elapsed since its promotion, whatever the TTL is within the time of the
\* model.
C27_Original ==
    [][\A c \in DOMAIN gw :
          servedKnownGood(c) =>
              \E ttl \in 1..(MaxNow - 1) :
                  now - hist.since[gw'[c].ret.address] < ttl]_vars

\* C28 as stated: when findContent is called again after a match whose
\* extraction failed, its searches and its episode list are requested from the
\* site, never answered from the cache.
C28_Original ==
    fc.calls > 1 /\ fc.pc \in {"idSearch", "titleSearch", "episodes"}
        => fc.cached = <<>>

\* the stages of the cipher, each by what it is to compute
RECURSIVE Concatenated(_, _)
Concatenated(parts, n) ==
    IF n = 0 THEN <<>> ELSE Concatenated(parts, n - 1) \o parts[n]

Rotated13(s) ==
    [i \in 1..Len(s) |->
        IF s[i] \in 65..90 THEN 65 + ((s[i] - 65 + 13) % 26)
        ELSE IF s[i] \in 97..122 THEN 97 + ((s[i] - 97 + 13) % 26)
        ELSE s[i]]

RECURSIVE Reversed(_)
Reversed(s) == IF s = <<>> THEN <<>> ELSE Reversed(Tail(s)) \o <<Head(s)>>

\* the digits write six bits each, most significant first: bit k of the text
Bit(s, k) == (unbase64(s[(k \div 6) + 1]) \div (2 ^ (5 - (k % 6)))) % 2

\* the whole bytes at the head of the bits of the digits
Base64Decoded(s) ==
    [j \in 1..((6 * Len(s)) \div 8) |->
        LET b(n) == Bit(s, 8 * (j - 1) + n)
        IN  128 * b(0) + 64 * b(1) + 32 * b(2) + 16 * b(3)
            + 8 * b(4) + 4 * b(5) + 2 * b(6) + b(7)]

Unmixed(s) == [j \in 1..Len(s) |-> (s[j] - (magic % (j + 4))) % 256]

statedPipeline(parts) ==
    Unmixed(Base64Decoded(Reversed(Rotated13(Concatenated(parts, Len(parts))))))

pipeline(parts) ==
    Unmixed(Rotated13(Base64Decoded(Reversed(Concatenated(parts, Len(parts))))))

\* C29 as stated: the output of decodeVideoUrl is that of the stages in the
\* order concatenate, rotate letters by 13, reverse, base64-decode as
\* Latin-1, unmix.
C29_Original == dc.applied => dc.out = statedPipeline(dc.parts)

\* C29: the output of decodeVideoUrl is that of the stages in the order
\* concatenate, reverse, base64-decode as Latin-1, rotate letters by 13,
\* unmix, for every list of parts over digits of base64.
C29_ReverseDecodeRotateUnmix == dc.applied => dc.out = pipeline(dc.parts)

\* decoded parts in which the rotation has changed a letter of the text
C29_Witness ==
    /\ dc.applied
    /\ Len(dc.parts) = MaxParts
    /\ Len(dc.out) = 3
    /\ \E j \in 1..3 :
         Base64Decoded(Reversed(join(dc.parts)))[j] \in (65..90) \cup (97..122)

\* C30 as stated: at every index i >= 0 and for every code point c in 0..255
\* the unmix gives (c - (399756995 mod (i+5))) reduced modulo 256 into
\* 0..255, also where 399756995 mod (i+5) exceeds c + 256.
C30_Original ==
    dc.applied => dc.out = (dc.charCode - (magic % (dc.i + 5))) % 256

(***************************************************************************)
(* Properties of findEpisodeUrl (SpecEpisode)                              *)
(***************************************************************************)

bothGiven == fc.type = "series" /\ isTruthy(fc.season) /\ isTruthy(fc.episode)

\* the link carries the pair that was asked for
asked(l) ==
    /\ l.season = parseInt(fc.season).num
    /\ l.episode = parseInt(fc.episode).num

discovered == IF fc.episodes = <<>> THEN <<>> ELSE fc.episodes[1]

\* C31: for a series request with season and episode, findContent returns the
\* url of a discovered episode link whose pair is the pair asked for, and
\* throws ContentNotFoundError when no discovered link has that pair, also
\* when the series page could not be fetched; no other episode is returned.
C31_ExactEpisode ==
    bothGiven =>
        /\ fc.pc = "returned" =>
             /\ fc.url # <<>>
             /\ asked(fc.url[1])
             /\ \E i \in DOMAIN discovered : discovered[i] = fc.url[1]
        /\ fc.pc = "threw" =>
             /\ fc.out.error = "ContentNotFoundError"
             /\ \A i \in DOMAIN discovered : ~asked(discovered[i])
             /\ fc.url = <<>>

\* the page holds the episode asked for after another of the same episode
\* number, and it is returned
C31_Witness ==
    /\ bothGiven
    /\ fc.pc = "returned"
    /\ Len(discovered) = 2
    /\ ~asked(discovered[1])
    /\ discovered[1].episode = discovered[2].episode
    /\ fc.url = <<discovered[2]>>

(***************************************************************************)
(* Properties of the proxy policy (SpecPolicy)                             *)
(***************************************************************************)

\* nothing goes through a proxy and nothing is sent for the pool
NoProxyTraffic ==
    /\ \A c \in DOMAIN gw : gw[c].pc \in {"idle", "returned"} /\ gw[c].ret = NoProxy
    /\ \A c \in DOMAIN ft :
         /\ ft[c].phase = "direct"
         /\ ft[c].proxy = NoProxy
         /\ ft[c].used = <<>>
         /\ ft[c].blocked /\ ft[c].pc = "done" =>
              /\ ft[c].result = "thrown"
              /\ ft[c].thrown.name \in {"NetworkError", "TimeoutError"}

\* C32: with PROXY_ENABLED='never' no request goes through a proxy and no
\* feed or test request is made: getWorkingProxy returns none and leaves both
\* proxy caches as they are, and a fetch whose direct phase is blocked throws
\* a NetworkError without entering the proxy phase.
C32_NeverMeansNever ==
    /\ [](policy = "never" => NoProxyTraffic)
    /\ [][policy = "never" => cache' = cache]_vars

\* under 'never' getWorkingProxy has returned none over a pool that holds a
\* known-good proxy, and a blocked fetch has thrown
C32_Witness ==
    /\ policy = "never"
    /\ Len(cache.workingProxies) > 0
    /\ \E c \in (DOMAIN gw) \ (DOMAIN ft) : gw[c].pc = "returned"
    /\ \E c \in DOMAIN ft :
         ft[c].blocked /\ ft[c].pc = "done" /\ ft[c].result = "thrown"

(***************************************************************************)
(* Properties of fetchWithRetry (SpecMatcherFetch)                         *)
(***************************************************************************)

\* C35 as stated, for the matcher: once a request sent through proxy P has
\* returned HTTP 403, P is out of the known-good set and no further request
\* of the call is sent through P.
C35_Original ==
    \A c \in DOMAIN ft :
        ft[c].refused =>
            /\ ft[c].after = 0
            /\ ft[c].pc \in {"done", "backoff"} =>
                 ft[c].proxy.address \notin Addresses(cache.workingProxies)

(***************************************************************************)
(* Properties of fetchProxyList (SpecRefresh)                              *)
(***************************************************************************)

\* the protocol of the first source, in the order HTTP, SOCKS4, SOCKS5, that
\* lists the address
firstType(feeds, address) ==
    IF address \in Range(feeds.http) THEN "http"
    ELSE IF address \in Range(feeds.socks4) THEN "socks4"
    ELSE "socks5"

listed(feeds) == Range(feeds.http) \cup Range(feeds.socks4) \cup Range(feeds.socks5)

\* C36: the candidate list never holds two entries with the same address, and
\* after a refresh it holds exactly the addresses the feeds listed, each with
\* the protocol of the first source, in the order HTTP, SOCKS4, SOCKS5, that
\* listed it.
C36_UniqueFirstType ==
    /\ \A i, j \in 1..Len(cache.proxies) :
         i # j => cache.proxies[i].address # cache.proxies[j].address
    /\ gw.refreshed =>
         /\ Addresses(cache.proxies) = listed(gw.feeds)
         /\ \A i \in 1..Len(cache.proxies) :
              cache.proxies[i].type = firstType(gw.feeds, cache.proxies[i].address)

\* a refresh in which an address came from two feeds of different protocols,
\* more than once, beside another address
C36_Witness ==
    /\ gw.refreshed
    /\ gw.feeds.http = <<1>>
    /\ gw.feeds.socks4 = <<NAddr, 1>>
    /\ gw.feeds.socks5 = <<NAddr, NAddr>>
    /\ cache.proxies = <<[address |-> 1, type |-> "http"],
                         [address |-> NAddr, type |-> "socks4"]>>

(***************************************************************************)
(* Properties of the stream handler (SpecAddon)                            *)
(***************************************************************************)

\* the request ends without streams of its own pipeline run
endsInError == ts.pc # "done" /\ ts'.pc = "done" /\ ts'.out.kind \in {"error", "empty"}

\* C37: every entry of the stream cache holds at least one stream; an entry is
\* written only in the step in which getVideoAndSubtitles returned after
\* findContent returned, and it is the answer of that request; a request that
\* ends in an error writes nothing, and after it a request for the same id
\* finds no entry to serve and runs findContent again.
C37_SuccessOnlyCache ==
    /\ [](\A id \in StreamIds :
            ts.streamCache[id].has => Len(ts.streamCache[id].data) >= 1)
    /\ [](ts.pc = "done" /\ ts.out.kind \in {"error", "empty"} =>
            ~streamCacheHit(ts.streamCache, ts.id, now))
    /\ [][ts'.streamCache # ts.streamCache =>
            /\ ts.pc = "getVideoAndSubtitles"
            /\ ts.found
            /\ gv.pc = "done"
            /\ gv.outcome = "returned"
            /\ ts'.pc = "done"
            /\ ts'.out.kind = "streams"
            /\ ts'.streamCache =
                 [ts.streamCache EXCEPT ![ts.id] =
                     [has |-> TRUE, data |-> ts'.out.streams, timestamp |-> now]]]_vars
    /\ [][endsInError => ts'.streamCache = ts.streamCache]_vars

\* a resolution succeeded and was cached, the entry went stale, and the next
\* request for the id ran the pipeline again, ended in an error and left the
\* cache as it was
C37_Witness ==
    /\ ts.pc = "done"
    /\ ts.requests = 2
    /\ ts.found
    /\ ts.out.kind = "error"
    /\ ts.streamCache[ts.id].has
    /\ Len(ts.streamCache[ts.id].data) = 1
    /\ ts.streamCache[ts.id].timestamp = 1
    /\ now = 2

(***************************************************************************)
(* The slots of httpGet and tryFetchWithProxy (SpecFetch)                  *)
(***************************************************************************)

\* the slots taken and the slots asked for
slotsOut(s) == s.activeRequests + Len(s.requestQueue)

\* caller c leaves an attempt for good in this step: by a return, by the break
\* of a block signal, or by the last failure of its loop
attemptLeft(c) ==
    /\ ft[c].pc \in {"wait", "backoff"}
    /\ ft'[c].pc \in {"done", "getProxy", "pause"}

\* C38: activeRequests is the number of attempts that took a slot and have not
\* released it, so it is never negative; the step in which an attempt is left,
\* on whichever path, gives back exactly one slot; once every call has
\* finished, activeRequests is 0 and the queue is empty.
C38_SlotsBalanced ==
    /\ [](/\ slots.activeRequests = Cardinality(Holders)
          /\ slots.activeRequests >= 0
          /\ (\A c \in DOMAIN ft : ft[c].pc \in {"idle", "done"}) =>
                 slots.activeRequests = 0 /\ slots.requestQueue = <<>>)
    /\ [][\A c \in DOMAIN ft :
            attemptLeft(c) => slotsOut(slots') = slotsOut(slots) - 1]_vars

\* a call that met a timeout and a block signal directly and sent requests
\* through proxies has finished, and no slot is out
C38_Witness ==
    /\ \E c \in DOMAIN ft :
         /\ ft[c].pc = "done"
         /\ ft[c].timedOut
         /\ ft[c].blocked
         /\ Len(ft[c].used) >= 1
    /\ slots.activeRequests = 0
    /\ slots.requestQueue = <<>>

(***************************************************************************)
(* The slot of an attempt that failed (SpecLimiter)                        *)
(***************************************************************************)

\* the callers that sleep before their next attempt
Sleepers == {c \in DOMAIN ft : ft[c].pc = "backoff"}

\* C39: a caller keeps the slot of its failed attempt while it sleeps: the
\* failure changes neither activeRequests nor the queue, every sleeper is
\* counted in activeRequests, and the slot goes to the first queued caller, or
\* back to the sleeper when nobody is queued, only in the step that ends the
\* sleep; a queued caller is admitted only in a step in which a holder of a
\* slot leaves its attempt or its sleep.
C39_SleepersHoldSlots ==
    /\ [](slots.activeRequests
            = Cardinality(Sleepers) + Cardinality({c \in DOMAIN ft : ft[c].pc = "wait"}))
    /\ [][\A c \in DOMAIN ft :
            /\ ft[c].pc = "wait" /\ ft'[c].pc = "backoff" =>
                 /\ slots' = slots
                 /\ \A d \in DOMAIN ft : ft[d].pc = "queued" => ft'[d].pc = "queued"
            /\ ft[c].pc = "backoff" /\ ft'[c].pc # "backoff" =>
                 IF slots.requestQueue = <<>>
                 THEN ft'[c].pc = "wait" /\ slots' = slots
                 ELSE /\ ft'[c].pc = "queued"
                      /\ ft'[Head(slots.requestQueue)].pc = "wait"
                      /\ slots'.requestQueue = Append(Tail(slots.requestQueue), c)
            /\ ft[c].pc = "queued" /\ ft'[c].pc = "wait" =>
                 \E d \in DOMAIN ft :
                    ft[d].pc \in {"wait", "backoff"} /\ ft'[d].pc # ft[d].pc]_vars

\* every slot is held by a sleeper, no request is out, and two callers wait
C39_Witness ==
    /\ Cardinality(Sleepers) = maxConcurrent
    /\ \A c \in DOMAIN ft : ft[c].pc # "wait"
    /\ Len(slots.requestQueue) = 2

(***************************************************************************)
(* The known-good set under concurrent callers (SpecPool)                  *)
(***************************************************************************)

\* C40 as stated: under any interleaving of getWorkingProxy and markProxyBad
\* calls the known-good set never holds two entries with the same address.
C40_Original ==
    \A i, j \in 1..Len(cache.workingProxies) :
        i # j => cache.workingProxies[i].address # cache.workingProxies[j].address

====
